---- MODULE Spec2Model ----
(***************************************************************************)
(* Model of the Kubernetes executor (src/index.js): the constructor, the   *)
(* Start protocol (_start, getPodStatus, updateBuild), the Stop protocol   *)
(* (_stop), the Verify protocol (_verify, getPods) and createPodConfig     *)
(* with its helpers (resources, timeout, pull-request jobs, cache path,    *)
(* setNodeSelector, setPreferredNodeSelector, setLabels,                   *)
(* setLifecycleHooks).                                                     *)
(*                                                                         *)
(* The boundary of the model is breaker.runCommand(options): every call    *)
(* the executor hands to it is appended to a call log, and the cluster     *)
(* (or the build API) answers with a response or with a rejection.  The    *)
(* status read carries retry options and an afterResponse hook; its        *)
(* attempts are modelled one by one, the hook being the executor's code.   *)
(* An attempt the hook rejects is repeated while the retry options allow   *)
(* it; after the last one the transport either resolves with the last      *)
(* response or rejects with the hook's error, and both outcomes are kept.  *)
(*                                                                         *)
(* JavaScript objects are functions from key names to values; an absent    *)
(* string-valued field of a response is the value Undefined.  Responses    *)
(* are well formed: a 201 create response carries metadata.name and a 200  *)
(* status response carries status.phase, as the Kubernetes API does.       *)
(***************************************************************************)
EXTENDS Integers, Sequences, FiniteSets, TLC

\* ------------------------------------------------------------------ bounds
MaxStarts == 1
MaxStops == 1

\* --------------------------------------------------------------- constants
DEFAULT_MAXATTEMPTS == 5

Undefined == "<undefined>"

EmptyObject == << >>

\* `if (v)` on a string-valued field
Truthy(v) == v # Undefined /\ v # ""

\* ------------------------------------------------------------- input sets
BuildIds == {15, 16}

Prefixes == {"", "beta_"}

\* kubernetes.podLabels of the options: absent, empty, additional labels,
\* and labels whose keys collide with the default ones
PodLabelOptions ==
    { [defined |-> FALSE, obj |-> EmptyObject],
      [defined |-> TRUE, obj |-> EmptyObject],
      [defined |-> TRUE, obj |-> ("network-egress" :> "restricted")],
      [defined |-> TRUE, obj |-> ("sdbuild" :> "other")],
      [defined |-> TRUE, obj |-> ("app" :> "custom") @@ ("team" :> "ci")] }

\* requestretry.maxAttempts of the options; 0 stands for absent
MaxAttemptsOptions == {0, 1, 2}

\* options given to the constructor: every prefix with every podLabels, and
\* every retry limit
ExecutorOptions ==
    [ prefix : Prefixes, podLabels : PodLabelOptions, maxAttempts : {0} ]
    \cup
    [ prefix : {"beta_"},
      podLabels : {[defined |-> FALSE, obj |-> EmptyObject]},
      maxAttempts : MaxAttemptsOptions ]

\* 5-character random suffixes of pod names
RandomSuffixes == {"abcde", "vwxyz"}

\* times read by new Date()
Times == {1}

Tokens == {"abcdefg"}

\* response bodies of failed calls: ordered lists of <<key, type, value>>
ErrorBodies ==
    { << <<"error", "s", "foo">> >>,
      << <<"statusCode", "n", 500>>, <<"message", "s", "lol">> >> }

\* errors raised by the transport or the circuit breaker
TransportErrors == { [name |-> "Error", message |-> "lol"] }

NoError == [name |-> "", message |-> ""]

NoBody == << >>

\* ------------------------------------------------------ JSON.stringify(body)
JSONvalue(e) == IF e[2] = "s" THEN "\"" \o e[3] \o "\"" ELSE ToString(e[3])

JSONmember(e) == "\"" \o e[1] \o "\":" \o JSONvalue(e)

RECURSIVE JSONmembers(_)
JSONmembers(body) ==
    IF Len(body) = 0 THEN ""
    ELSE IF Len(body) = 1 THEN JSONmember(body[1])
    ELSE JSONmember(body[1]) \o "," \o JSONmembers(Tail(body))

JSONstringify(body) == "{" \o JSONmembers(body) \o "}"

\* ------------------------------------------------- String.prototype.toLowerCase
Phases == {"Pending", "Running", "Succeeded", "Failed", "FAILED", "Unknown"}

toLowerCase(s) ==
    CASE s \in {"Pending", "pending", "PENDING"} -> "pending"
      [] s \in {"Running", "running"} -> "running"
      [] s \in {"Succeeded", "succeeded"} -> "succeeded"
      [] s \in {"Failed", "failed", "FAILED"} -> "failed"
      [] s \in {"Unknown", "unknown", "UNKNOWN"} -> "unknown"
      [] s \in {"HIGH", "High", "high"} -> "high"
      [] OTHER -> s

\* hoek.reach(obj, key, { default })
Reach(obj, key, default) == IF key \in DOMAIN obj THEN obj[key] ELSE default

\* an optional object of string pairs, its keys in insertion order
NoPairs == [defined |-> FALSE, pairs |-> << >>]

\* kubernetes.lifecycleHooks of the options when absent
NoHooks == [defined |-> FALSE, obj |-> EmptyObject]

\* ------------------------------------------------------------- constructor
DEFAULT_BUILD_TIMEOUT == 90

MAX_BUILD_TIMEOUT == 120

\* CPU quantities are held in tenths of a core, so that the default of the
\* MICRO tier (0.5) is the integer 5; memory quantities are in GB
DefaultCpu == [max |-> 120, turbo |-> 120, high |-> 60, low |-> 20, micro |-> 5]

DefaultMemory == [max |-> 16, turbo |-> 16, high |-> 12, low |-> 2, micro |-> 1]

Constructor(options) ==
    [ prefix |-> options.prefix,
      host |-> "kubernetes.default",
      jobsNamespace |-> "default",
      token |-> "api_key",
      api |-> "http://api:8080",
      podLabels |-> options.podLabels,
      maxAttempts |-> IF options.maxAttempts # 0 THEN options.maxAttempts
                      ELSE DEFAULT_MAXATTEMPTS,
      buildTimeout |-> IF Reach(options, "buildTimeout", 0) # 0
                       THEN options.buildTimeout ELSE DEFAULT_BUILD_TIMEOUT,
      maxBuildTimeout |-> IF Reach(options, "maxBuildTimeout", 0) # 0
                          THEN options.maxBuildTimeout ELSE MAX_BUILD_TIMEOUT,
      maxCpu |-> Reach(options, "cpu", DefaultCpu).max,
      turboCpu |-> Reach(options, "cpu", DefaultCpu).turbo,
      highCpu |-> Reach(options, "cpu", DefaultCpu).high,
      lowCpu |-> Reach(options, "cpu", DefaultCpu).low,
      microCpu |-> Reach(options, "cpu", DefaultCpu).micro,
      maxMemory |-> Reach(options, "memory", DefaultMemory).max,
      turboMemory |-> Reach(options, "memory", DefaultMemory).turbo,
      highMemory |-> Reach(options, "memory", DefaultMemory).high,
      lowMemory |-> Reach(options, "memory", DefaultMemory).low,
      microMemory |-> Reach(options, "memory", DefaultMemory).micro,
      diskSpeedLabel |-> Reach(options, "diskSpeedLabel", ""),
      nodeSelectors |-> Reach(options, "nodeSelectors", NoPairs),
      preferredNodeSelectors |-> Reach(options, "preferredNodeSelectors", NoPairs),
      cacheStrategy |-> Reach(options, "cacheStrategy", "s3"),
      cachePath |-> Reach(options, "cachePath", "/"),
      lifecycleHooks |-> Reach(options, "lifecycleHooks", NoHooks) ]

podsUrl(this) ==
    "https://" \o this.host \o "/api/v1/namespaces/" \o this.jobsNamespace \o "/pods"

\* Object.assign(target, source)
ObjectAssign(target, source) ==
    [k \in DOMAIN target \cup DOMAIN source |->
        IF k \in DOMAIN source THEN source[k] ELSE target[k]]

\* ---------------------------------------------------------------- setLabels
defaultLabels(buildContainerName) ==
    ("app" :> "screwdriver") @@ ("tier" :> "builds") @@ ("sdbuild" :> buildContainerName)

setLabels(podLabels, buildContainerName) ==
    IF podLabels.defined /\ DOMAIN podLabels.obj # {}
    THEN ObjectAssign(defaultLabels(buildContainerName), podLabels.obj)
    ELSE defaultLabels(buildContainerName)

\* `${this.prefix}${buildId}`
buildContainerName(this, buildId) == this.prefix \o ToString(buildId)

\* ---------------------------------------------------------- createPodConfig
\* values of the annotations of a build: strings and numbers
Str(s) == [type |-> "string", s |-> s, n |-> 0]

Num(n) == [type |-> "number", s |-> "", n |-> n]

Min(a, b) == IF a < b THEN a ELSE b

\* a number of cores in the unit CPU quantities are held in
Cores(n) == n * 10

\* `x * 1000` on a CPU quantity x
Times1000(x) == x * 100

\* Number.isInteger(annotations[key])
IsInteger(annotations, key) ==
    key \in DOMAIN annotations /\ annotations[key].type = "number"

\* the properties an object literal inherits from Object.prototype
ObjectPrototypeKeys ==
    { "constructor", "hasOwnProperty", "isPrototypeOf", "propertyIsEnumerable",
      "toLocaleString", "toString", "valueOf", "__proto__",
      "__defineGetter__", "__defineSetter__", "__lookupGetter__", "__lookupSetter__" }

\* the value of an inherited property: a function, or the prototype itself
ObjectPrototype(key) == "Object.prototype." \o key

\* the product of a value that is no number
NaN == "NaN"

\* `annotations[key] in values`: true of the own keys of the table and of
\* the keys it inherits
InValues(annotations, key, values) ==
    /\ key \in DOMAIN annotations
    /\ annotations[key].type = "string"
    /\ annotations[key].s \in DOMAIN values \cup ObjectPrototypeKeys

cpuValues(this) ==
    [ MAX |-> this.maxCpu, TURBO |-> this.turboCpu, HIGH |-> this.highCpu,
      LOW |-> this.lowCpu, MICRO |-> this.microCpu ]

\* an integer cpu annotation taken as it is
cpu_noCeiling(this, annotations) ==
    IF IsInteger(annotations, "cpu")
    THEN Times1000(Cores(annotations["cpu"].n))
    ELSE IF InValues(annotations, "cpu", cpuValues(this))
    THEN IF annotations["cpu"].s \in DOMAIN cpuValues(this)
         THEN Times1000(cpuValues(this)[annotations["cpu"].s])
         ELSE NaN
    ELSE Times1000(cpuValues(this).LOW)

\* cpu of createPodConfig, in millicores; NaN for an annotation that names
\* an inherited property of cpuValues
cpu(this, annotations) ==
    IF IsInteger(annotations, "cpu")
    THEN Times1000(Min(Cores(annotations["cpu"].n), this.maxCpu))
    ELSE IF InValues(annotations, "cpu", cpuValues(this))
    THEN IF annotations["cpu"].s \in DOMAIN cpuValues(this)
         THEN Times1000(cpuValues(this)[annotations["cpu"].s])
         ELSE NaN
    ELSE Times1000(cpuValues(this).LOW)

memValues(this) ==
    [ TURBO |-> this.turboMemory, HIGH |-> this.highMemory,
      LOW |-> this.lowMemory, MICRO |-> this.microMemory ]

\* an integer ram annotation taken as it is
memory_noCeiling(this, annotations) ==
    IF IsInteger(annotations, "ram")
    THEN annotations["ram"].n
    ELSE IF InValues(annotations, "ram", memValues(this))
    THEN IF annotations["ram"].s \in DOMAIN memValues(this)
         THEN memValues(this)[annotations["ram"].s]
         ELSE ObjectPrototype(annotations["ram"].s)
    ELSE memValues(this).LOW

\* memory of createPodConfig, in GB; the inherited property for an
\* annotation that names one
memory(this, annotations) ==
    IF IsInteger(annotations, "ram")
    THEN Min(annotations["ram"].n, this.maxMemory)
    ELSE IF InValues(annotations, "ram", memValues(this))
    THEN IF annotations["ram"].s \in DOMAIN memValues(this)
         THEN memValues(this)[annotations["ram"].s]
         ELSE ObjectPrototype(annotations["ram"].s)
    ELSE memValues(this).LOW

\* the timeout annotation taken as it is
buildTimeout_noMax(this, annotations) ==
    IF "timeout" \in DOMAIN annotations /\ annotations["timeout"].n # 0
    THEN annotations["timeout"].n
    ELSE this.buildTimeout

\* buildTimeout of createPodConfig: the annotation is a number
buildTimeout(this, annotations) ==
    IF "timeout" \in DOMAIN annotations /\ annotations["timeout"].n # 0
    THEN Min(annotations["timeout"].n, this.maxBuildTimeout)
    ELSE this.buildTimeout

\* PR_JOBNAME_REGEX_PATTERN without its lastIndex: /^PR-([0-9]+)(?::[\w-]+)?$/i
\* on the job names used here
PR_JOBNAME_REGEX_PATTERN(jobName) == jobName \in {"PR-15", "pr-15", "PR-15:main"}

\* PR_JOBNAME_REGEX_PATTERN.exec(jobName) with the pattern's lastIndex at li:
\* the pattern is global, so the search starts at lastIndex, where ^ matches
\* only if lastIndex is 0; a match leaves lastIndex at its end, a failure at 0
regexExec(jobName, li) ==
    IF li = 0 /\ PR_JOBNAME_REGEX_PATTERN(jobName)
    THEN [matched |-> TRUE, lastIndex |-> Len(jobName)]
    ELSE [matched |-> FALSE, lastIndex |-> 0]

\* jwt.decode(token, { complete: true }): null for a string that is no JWT
jwtDecode(token) ==
    CASE token = "jwt.parent" -> [decoded |-> TRUE, payload |-> ("prParentJobId" :> "777")]
      [] token = "jwt.plain" -> [decoded |-> TRUE, payload |-> EmptyObject]
      [] OTHER -> [decoded |-> FALSE, payload |-> EmptyObject]

TypeErrorNullPayload ==
    [name |-> "TypeError", message |-> "Cannot read properties of null (reading 'payload')"]

\* yaml.safeLoad of the installed js-yaml: the loader of js-yaml 3, which the
\* repository's tests call, or the stub js-yaml 4 leaves under that name
\* (package.json asks for ^4.1.0), which throws on every call
SafeLoads == {"load", "removed"}

SafeLoadRemoved ==
    [name |-> "Error",
     message |-> "Function yaml.safeLoad is removed in js-yaml 4. Use yaml.load instead, which is now safe by default."]

\* the integers a plain YAML scalar of the rendered template can spell
YamlInts == 0..99

\* the loader's reading of a plain scalar: an integer when the text spells
\* one, else the text
yamlScalar(text) ==
    IF \E n \in YamlInts : ToString(n) = text
    THEN CHOOSE n \in YamlInts : ToString(n) = text
    ELSE text

\* createPodConfig reads decodedToken.payload of a null decodedToken
createPodConfigThrows(config, li) ==
    /\ regexExec(Reach(config, "jobName", ""), li).matched
    /\ ~jwtDecode(config.token).decoded

\* jobId and volumeReadOnly of createPodConfig
prJob(config, li) ==
    IF regexExec(Reach(config, "jobName", ""), li).matched
    THEN [ volumeReadOnly |-> TRUE,
           jobId |-> Reach(jwtDecode(config.token).payload, "prParentJobId",
                           Reach(config, "jobId", "")) ]
    ELSE [ volumeReadOnly |-> FALSE, jobId |-> Reach(config, "jobId", "") ]

DISK_CACHE_STRATEGY == "disk"

diskCacheEnabled(this) == this.cachePath # "" /\ this.cacheStrategy = DISK_CACHE_STRATEGY

\* this.cachePath as createPodConfig leaves it
cachePathAfter(this) ==
    IF diskCacheEnabled(this) /\ this.prefix # ""
    THEN this.cachePath \o "/" \o this.prefix
    ELSE this.cachePath

\* paths of a pod config below which the selectors are kept
TOLERATIONS_PATH == "spec.tolerations"

AFFINITY_NODE_SELECTOR_PATH ==
    "spec.affinity.nodeAffinity.requiredDuringSchedulingIgnoredDuringExecution.nodeSelectorTerms[0].matchExpressions"

AFFINITY_PREFERRED_NODE_SELECTOR_PATH ==
    "spec.affinity.nodeAffinity.preferredDuringSchedulingIgnoredDuringExecution"

PREFERRED_WEIGHT == 100

\* target[kv.key] = kv.value on an object of string pairs
SetPair(pairs, kv) ==
    IF \E i \in 1..Len(pairs) : pairs[i].key = kv.key
    THEN [i \in 1..Len(pairs) |-> IF pairs[i].key = kv.key THEN kv ELSE pairs[i]]
    ELSE Append(pairs, kv)

\* hoek.merge(target, source) on objects of string pairs
RECURSIVE MergePairs(_, _)
MergePairs(target, source) ==
    IF source = << >> THEN target
    ELSE MergePairs(SetPair(target, Head(source)), Tail(source))

\* nodeSelectors of createPodConfig: the disk speed selector, then
\* this.nodeSelectors merged over it
nodeSelectors(this, annotations) ==
    LET diskSpeedConfig ==
            IF "diskSpeed" \in DOMAIN annotations
            THEN toLowerCase(annotations["diskSpeed"].s) ELSE ""
        diskSpeedSelectors ==
            IF this.diskSpeedLabel # "" /\ diskSpeedConfig # ""
            THEN << [key |-> this.diskSpeedLabel, value |-> diskSpeedConfig] >>
            ELSE << >>
    IN  MergePairs(diskSpeedSelectors,
                   IF this.nodeSelectors.defined THEN this.nodeSelectors.pairs ELSE << >>)

\* the selectors pushed to the tolerations only
setNodeSelector_tolerationsOnly(spec, selectors) ==
    IF selectors = << >> THEN spec
    ELSE (TOLERATIONS_PATH :>
             (Reach(spec, TOLERATIONS_PATH, << >>) \o
              [i \in 1..Len(selectors) |->
                  [ key |-> selectors[i].key, value |-> selectors[i].value,
                    effect |-> "NoSchedule", operator |-> "Equal" ]]))
         @@ spec

\* setNodeSelector on the paths of a pod config, selectors being the pairs of
\* the nodeSelectors object
setNodeSelector(spec, selectors) ==
    IF selectors = << >> THEN spec
    ELSE (TOLERATIONS_PATH :>
             (Reach(spec, TOLERATIONS_PATH, << >>) \o
              [i \in 1..Len(selectors) |->
                  [ key |-> selectors[i].key, value |-> selectors[i].value,
                    effect |-> "NoSchedule", operator |-> "Equal" ]]))
         @@
         (AFFINITY_NODE_SELECTOR_PATH :>
             (Reach(spec, AFFINITY_NODE_SELECTOR_PATH, << >>) \o
              [i \in 1..Len(selectors) |->
                  [ key |-> selectors[i].key, operator |-> "In",
                    values |-> << selectors[i].value >> ]]))
         @@ spec

\* one preferred entry pushed for each pair
setPreferredNodeSelector_entryPerPair(spec, preferredNodeSelectors) ==
    IF ~preferredNodeSelectors.defined \/ preferredNodeSelectors.pairs = << >> THEN spec
    ELSE LET pairs == preferredNodeSelectors.pairs IN
         (AFFINITY_PREFERRED_NODE_SELECTOR_PATH :>
             (Reach(spec, AFFINITY_PREFERRED_NODE_SELECTOR_PATH, << >>) \o
              [i \in 1..Len(pairs) |->
                  [ weight |-> PREFERRED_WEIGHT,
                    preference |->
                      [ matchExpressions |->
                          << [ key |-> pairs[i].key, operator |-> "In",
                               values |-> << pairs[i].value >> ] >> ] ]]))
         @@ spec

\* setPreferredNodeSelector on the paths of a pod config
setPreferredNodeSelector(spec, preferredNodeSelectors) ==
    IF ~preferredNodeSelectors.defined \/ preferredNodeSelectors.pairs = << >> THEN spec
    ELSE LET pairs == preferredNodeSelectors.pairs IN
         (AFFINITY_PREFERRED_NODE_SELECTOR_PATH :>
             Append(Reach(spec, AFFINITY_PREFERRED_NODE_SELECTOR_PATH, << >>),
                    [ weight |-> PREFERRED_WEIGHT,
                      preference |->
                        [ matchExpressions |->
                            [i \in 1..Len(pairs) |->
                                [ key |-> pairs[i].key, operator |-> "In",
                                  values |-> << pairs[i].value >> ]] ] ]))
         @@ spec

\* path of a pod config below which the containers are kept
CONTAINERS_PATH == "spec.containers"

\* Array.prototype.findIndex(c => c.name === containerName), counted from 1:
\* index of the first container of that name, 0 if there is none
RECURSIVE FindContainerFrom(_, _, _)
FindContainerFrom(containers, containerName, i) ==
    IF i > Len(containers) THEN 0
    ELSE IF containers[i]["name"] = containerName THEN i
    ELSE FindContainerFrom(containers, containerName, i + 1)

\* the hooks set on every container
setLifecycleHooks_everyContainer(spec, lifecycleHooks, containerName) ==
    IF ~lifecycleHooks.defined \/ DOMAIN lifecycleHooks.obj = {} THEN spec
    ELSE LET containers == Reach(spec, CONTAINERS_PATH, << >>) IN
         IF containers = << >> THEN spec
         ELSE (CONTAINERS_PATH :>
                  [i \in 1..Len(containers) |->
                      ("lifecycle" :> lifecycleHooks.obj) @@ containers[i]])
              @@ spec

\* setLifecycleHooks on the paths of a pod config
setLifecycleHooks(spec, lifecycleHooks, containerName) ==
    IF ~lifecycleHooks.defined \/ DOMAIN lifecycleHooks.obj = {} THEN spec
    ELSE LET containers == Reach(spec, CONTAINERS_PATH, << >>)
             buildContainerIndex == FindContainerFrom(containers, containerName, 1)
         IN  IF buildContainerIndex = 0 THEN spec
             ELSE (CONTAINERS_PATH :>
                      [containers EXCEPT ![buildContainerIndex] =
                          ("lifecycle" :> lifecycleHooks.obj) @@ @])
                  @@ spec

\* the spec paths the parsed template holds before the selectors are
\* applied: one container, and neither tolerations nor an affinity
templateSpec == (CONTAINERS_PATH :> << ("name" :> "beta_15") >>)

\* the pod config createPodConfig returns when it does not throw, li being
\* the lastIndex of PR_JOBNAME_REGEX_PATTERN at the call: the name the
\* template spells {{build_id_with_prefix}} as the loader reads it, the
\* labels, the values handed to the template, and the selector paths
createPodConfig(this, config, random, li) ==
    LET annotations == Reach(config, "annotations", EmptyObject)
        name == buildContainerName(this, config.buildId)
    IN  [ metadata |->
            [ name |-> yamlScalar(name),
              labels |-> setLabels(this.podLabels, name) ],
          values |->
            [ cpu |-> cpu(this, annotations),
              memory |-> memory(this, annotations),
              pod_name |-> name \o "-" \o random,
              build_timeout |-> buildTimeout(this, annotations),
              build_id_with_prefix |-> name,
              job_id |-> prJob(config, li).jobId,
              cache |-> [ diskEnabled |-> diskCacheEnabled(this),
                          strategy |-> this.cacheStrategy,
                          path |-> cachePathAfter(this),
                          volumeReadOnly |-> prJob(config, li).volumeReadOnly ] ],
          spec |->
            setLifecycleHooks(
                setPreferredNodeSelector(
                    setNodeSelector(templateSpec, nodeSelectors(this, annotations)),
                    this.preferredNodeSelectors),
                this.lifecycleHooks, name) ]

\* the selector built from the build id alone
labelSelector_noPrefix(this, buildId) == "sdbuild=" \o ToString(buildId)

\* labelSelector of _stop and getPods
labelSelector(this, buildId) == "sdbuild=" \o this.prefix \o ToString(buildId)

\* the cluster's equality-based selection of a workload by a label selector
Selects(selector, labels) ==
    "sdbuild" \in DOMAIN labels /\ selector = "sdbuild=" \o labels["sdbuild"]

\* ------------------------------------------------------------- updateBuild
updateBuildJson(config) ==
    (IF "statusMessage" \in DOMAIN config /\ Truthy(config["statusMessage"])
     THEN ("statusMessage" :> config["statusMessage"]) ELSE EmptyObject)
    @@
    (IF "stats" \in DOMAIN config THEN ("stats" :> config["stats"]) ELSE EmptyObject)

updateBuild(this, config) ==
    [ method |-> "PUT",
      url |-> config["apiUri"] \o "/v4/builds/" \o ToString(config["buildId"]),
      authorization |-> "Bearer " \o config["token"],
      retryLimit |-> this.maxAttempts,
      json |-> updateBuildJson(config) ]

\* ------------------------------------------------------- status responses
ConditionOptions ==
    { [present |-> FALSE, list |-> << >>],
      [present |-> TRUE, list |-> << [type |-> "PodScheduled", status |-> "True"] >>],
      [present |-> TRUE, list |-> << [type |-> "Initialized", status |-> "True"],
                                     [type |-> "PodScheduled", status |-> "False"] >>],
      [present |-> TRUE, list |-> << [type |-> "Initialized", status |-> "True"] >>] }

FatalImageReasons == {"ErrImagePull", "ImagePullBackOff", "InvalidImageName"}

FatalConfigReasons ==
    {"CrashLoopBackOff", "CreateContainerConfigError", "CreateContainerError", "StartError"}

WaitingReasons == FatalImageReasons \cup FatalConfigReasons \cup {"PodInitializing", Undefined}

NodeNames == {Undefined, "node1.my.k8s.cluster.com"}

StatusResponses ==
    [ statusCode : {200},
      phase : Phases,
      conditions : ConditionOptions,
      nodeName : NodeNames,
      waitingReason : WaitingReasons,
      body : {NoBody} ]
    \cup
    [ statusCode : {404, 500},
      phase : {Undefined},
      conditions : {[present |-> FALSE, list |-> << >>]},
      nodeName : {Undefined},
      waitingReason : {Undefined},
      body : ErrorBodies ]

\* the responses used where Start runs next to the other operations
CoreStatusResponses ==
    { r \in StatusResponses :
        /\ r.phase \in {"Pending", "Running", "Failed", Undefined}
        /\ r.waitingReason = Undefined
        /\ r.statusCode # 404
        /\ Len(r.conditions.list) < 2
        /\ Len(r.body) < 2 }

NoResponse ==
    [ statusCode |-> 0, phase |-> Undefined,
      conditions |-> [present |-> FALSE, list |-> << >>],
      nodeName |-> Undefined, waitingReason |-> Undefined, body |-> NoBody ]

\* Array.prototype.find(c => c.type === type): index of the first match, 0 if none
RECURSIVE FindIndexFrom(_, _, _)
FindIndexFrom(list, type, i) ==
    IF i > Len(list) THEN 0
    ELSE IF list[i].type = type THEN i
    ELSE FindIndexFrom(list, type, i + 1)

\* ------------------------------------------ scheduleStatusRetryStrategy
\* the hook accepting a response of phase failed or unknown at once
scheduleStatusRetryStrategy_stopsOnFatal(response) ==
    IF toLowerCase(response.phase) \in {"failed", "unknown"}
    THEN [kind |-> "return", error |-> NoError]
    ELSE IF response.conditions.present
    THEN LET i == FindIndexFrom(response.conditions.list, "PodScheduled", 1) IN
         IF i = 0
         THEN [kind |-> "throw",
               error |-> [name |-> "TypeError",
                          message |-> "Cannot read properties of undefined (reading 'status')"]]
         ELSE IF response.conditions.list[i].status = "True"
         THEN [kind |-> "return", error |-> NoError]
         ELSE [kind |-> "throw", error |-> [name |-> "Error", message |-> "Retry limit reached"]]
    ELSE [kind |-> "throw", error |-> [name |-> "Error", message |-> "Retry limit reached"]]

\* the afterResponse hook of the status read: returns the response or throws
scheduleStatusRetryStrategy(response) ==
    IF response.conditions.present
    THEN LET i == FindIndexFrom(response.conditions.list, "PodScheduled", 1) IN
         IF i = 0
         THEN [kind |-> "throw",
               error |-> [name |-> "TypeError",
                          message |-> "Cannot read properties of undefined (reading 'status')"]]
         ELSE IF response.conditions.list[i].status = "True"
         THEN [kind |-> "return", error |-> NoError]
         ELSE [kind |-> "throw", error |-> [name |-> "Error", message |-> "Retry limit reached"]]
    ELSE [kind |-> "throw", error |-> [name |-> "Error", message |-> "Retry limit reached"]]

\* retry.statusCodes of the status read
StatusRetryCodes == {200}

\* ------------------------------------------------------------ getPodStatus
\* the phase compared without lower-casing it
getPodStatus_caseSensitive(resp) ==
    IF resp.statusCode # 200
    THEN [ ok |-> FALSE,
           error |-> [name |-> "Error",
                      message |-> "Failed to get pod status:" \o JSONstringify(resp.body)],
           isPending |-> FALSE, nodeName |-> Undefined ]
    ELSE LET status == resp.phase IN
         IF status = "failed" \/ status = "unknown"
         THEN [ ok |-> FALSE,
                error |-> [name |-> "Error",
                           message |-> "Failed to create pod. Pod status is: " \o status],
                isPending |-> FALSE, nodeName |-> Undefined ]
         ELSE [ ok |-> TRUE, error |-> NoError,
                isPending |-> (status = "pending"), nodeName |-> resp.nodeName ]

\* the container waiting reason classified as _verify classifies it
getPodStatus_waitingReasons(resp) ==
    IF resp.statusCode # 200
    THEN [ ok |-> FALSE,
           error |-> [name |-> "Error",
                      message |-> "Failed to get pod status:" \o JSONstringify(resp.body)],
           isPending |-> FALSE, nodeName |-> Undefined ]
    ELSE LET status == toLowerCase(resp.phase) IN
         IF status = "failed" \/ status = "unknown"
         THEN [ ok |-> FALSE,
                error |-> [name |-> "Error",
                           message |-> "Failed to create pod. Pod status is: " \o status],
                isPending |-> FALSE, nodeName |-> Undefined ]
         ELSE IF resp.waitingReason \in FatalConfigReasons
         THEN [ ok |-> FALSE,
                error |-> [name |-> "Error",
                           message |-> "Build failed to start. Please reach out to your cluster admin for help."],
                isPending |-> FALSE, nodeName |-> Undefined ]
         ELSE IF resp.waitingReason \in FatalImageReasons
         THEN [ ok |-> FALSE,
                error |-> [name |-> "Error",
                           message |-> "Build failed to start. Please check if your image is valid."],
                isPending |-> FALSE, nodeName |-> Undefined ]
         ELSE [ ok |-> TRUE, error |-> NoError,
                isPending |-> (status = "pending"), nodeName |-> resp.nodeName ]

\* the part of getPodStatus that follows the awaited response
getPodStatus(resp) ==
    IF resp.statusCode # 200
    THEN [ ok |-> FALSE,
           error |-> [name |-> "Error",
                      message |-> "Failed to get pod status:" \o JSONstringify(resp.body)],
           isPending |-> FALSE, nodeName |-> Undefined ]
    ELSE LET status == toLowerCase(resp.phase) IN
         IF status = "failed" \/ status = "unknown"
         THEN [ ok |-> FALSE,
                error |-> [name |-> "Error",
                           message |-> "Failed to create pod. Pod status is: " \o status],
                isPending |-> FALSE, nodeName |-> Undefined ]
         ELSE [ ok |-> TRUE, error |-> NoError,
                isPending |-> (status = "pending"), nodeName |-> resp.nodeName ]

\* the status message set whether or not a node is assigned
updateConfig_alwaysMessage(this, config, nodeName, now) ==
    ("apiUri" :> this.api) @@ ("buildId" :> config.buildId) @@ ("token" :> config.token)
    @@ ("statusMessage" :> "Waiting for resources to be available.")
    @@
    (IF Truthy(nodeName)
     THEN ("stats" :> [hostname |-> nodeName, imagePullStartTime |-> now])
     ELSE EmptyObject)

\* updateConfig built by _start after the status read
updateConfig(this, config, nodeName, now) ==
    ("apiUri" :> this.api) @@ ("buildId" :> config.buildId) @@ ("token" :> config.token)
    @@
    (IF Truthy(nodeName)
     THEN ("stats" :> [hostname |-> nodeName, imagePullStartTime |-> now])
     ELSE ("statusMessage" :> "Waiting for resources to be available."))

\* every 2xx status taken for a created workload
createFailed_any2xx(statusCode) == statusCode < 200 \/ statusCode > 299

\* `resp.statusCode !== 201` of _start, `resp.statusCode !== 200` of _stop
createFailed(statusCode) == statusCode # 201

deleteFailed(statusCode) == statusCode # 200

\* value _start resolves to
startReturnValue(isPending) == ~isPending

\* value _stop resolves to
Null == "null"

NoResult == [kind |-> "none", value |-> FALSE, error |-> NoError]

NoStopResult == [kind |-> "none", value |-> Undefined, error |-> NoError]

Resolved(v) == [kind |-> "resolved", value |-> v, error |-> NoError]

Rejected(e) == [kind |-> "rejected", value |-> FALSE, error |-> e]

StopRejected(e) == [kind |-> "rejected", value |-> Undefined, error |-> e]

\* ----------------------------------------------------------------- _verify
MaxVerifies == 1

MaxPods == 2

\* a workload of a list response: status.phase and
\* status.containerStatuses.0.state.waiting.reason
VerifyPhases == {"pending", "Running", "Failed", "unknown"}

PodKinds == [phase : VerifyPhases, waitingReason : WaitingReasons]

\* the workloads used in the longest lists
CorePodKinds ==
    { [phase |-> "pending", waitingReason |-> Undefined],
      [phase |-> "Running", waitingReason |-> Undefined],
      [phase |-> "pending", waitingReason |-> "PodInitializing"],
      [phase |-> "pending", waitingReason |-> "ErrImagePull"],
      [phase |-> "pending", waitingReason |-> "CrashLoopBackOff"],
      [phase |-> "Failed", waitingReason |-> Undefined],
      [phase |-> "Failed", waitingReason |-> "PodInitializing"] }

ListsOver(S, n) == UNION { [1..k -> S] : k \in 0..n }

PodLists == ListsOver(PodKinds, 1) \cup ListsOver(CorePodKinds, MaxPods)

\* answers of the cluster to the list call: a pod list (whose body has items
\* and no status.phase), or a refusal
ListResponses ==
    [ statusCode : {200}, phase : {Undefined}, items : PodLists, body : {NoBody} ]
    \cup
    [ statusCode : {404, 500}, phase : {Undefined}, items : {<< >>}, body : ErrorBodies ]

\* the list responses used where Verify runs next to the other operations
CoreListResponses ==
    { r \in ListResponses :
        /\ r.statusCode # 404
        /\ Len(r.body) < 2
        /\ r.items \in ListsOver(CorePodKinds, 1) }

NoListResponse == [statusCode |-> 0, phase |-> Undefined, items |-> << >>, body |-> NoBody]

\* the afterResponse hook of the list call: reads body.status.phase of the
\* response, returns the response or throws
pendingStatusRetryStrategy(response) ==
    IF ~Truthy(response.phase) \/ toLowerCase(response.phase) = "pending"
    THEN [kind |-> "throw", error |-> [name |-> "Error", message |-> "Retry limit reached"]]
    ELSE [kind |-> "return", error |-> NoError]

\* the list call issued by getPods
getPodsOptions(self, buildId) ==
    [ method |-> "GET",
      url |-> podsUrl(self),
      authorization |-> "Bearer " \o self.token,
      retryStatusCodes |-> {200},
      retryLimit |-> self.maxAttempts,
      labelSelector |-> labelSelector(self, buildId) ]

\* pods.find(p => ...) of _verify, from index i: the message the callback
\* set and the waitingReason it left behind
RECURSIVE verifyFind(_, _, _)
verifyFind(items, i, waitingReason) ==
    IF i > Len(items)
    THEN [message |-> Undefined, waitingReason |-> waitingReason]
    ELSE LET p == items[i]
             status == toLowerCase(p.phase)
         IN  IF status = "failed" \/ status = "unknown"
             THEN [message |-> "Failed to create pod. Pod status is: " \o status,
                   waitingReason |-> p.waitingReason]
             ELSE IF p.waitingReason \in FatalConfigReasons
             THEN [message |-> "Build failed to start. Please reach out to your cluster admin for help.",
                   waitingReason |-> p.waitingReason]
             ELSE IF p.waitingReason \in FatalImageReasons
             THEN [message |-> "Build failed to start. Please check if your image is valid.",
                   waitingReason |-> p.waitingReason]
             ELSE verifyFind(items, i + 1, p.waitingReason)

NoVerifyResult == [kind |-> "none", value |-> Undefined, error |-> NoError]

VerifyRejected(e) == [kind |-> "rejected", value |-> Undefined, error |-> e]

\* _verify after getPods returned items: throws when the waitingReason left
\* by the scan is PodInitializing, else returns the message
verifyOutcome(items) ==
    LET found == verifyFind(items, 1, Undefined) IN
    IF found.waitingReason = "PodInitializing"
    THEN VerifyRejected([name |-> "Error",
                         message |-> "Build failed to start. Pod is still intializing."])
    ELSE Resolved(found.message)

\* ------------------------------------------- inputs of createPodConfig
MaxBuilds == 2

Tiers == {"MICRO", "LOW", "HIGH", "TURBO", "MAX"}

\* values of a cpu or ram annotation: a tier, an unrecognized name, an integer
ResourceAnnotations ==
    { Str(t) : t \in Tiers \cup {"BOGUS", "toString", "constructor"} }
    \cup { Num(n) : n \in {1, 4, 64} }

TimeoutAnnotations == { Num(n) : n \in {0, 45, 220} }

AnnotationOptions ==
    { EmptyObject, ("cpu" :> Str("HIGH")) @@ ("ram" :> Num(64)) }
    \cup { ("cpu" :> v) : v \in ResourceAnnotations }
    \cup { ("ram" :> v) : v \in ResourceAnnotations }
    \cup { ("timeout" :> v) : v \in TimeoutAnnotations }
    \cup { ("diskSpeed" :> Str("HIGH")) }

JobNames == {"main", "PR-15", "PR-15:main"}

BuildTokens == {"abcdefg", "jwt.parent", "jwt.plain"}

\* build descriptors: one with each set of annotations, and one with each job
\* name and kind of token
BuildConfigs ==
    [ buildId : {15}, token : {"abcdefg"}, jobName : {""}, jobId : {""},
      annotations : AnnotationOptions ]
    \cup
    [ buildId : {15}, token : BuildTokens, jobName : JobNames, jobId : {"1234"},
      annotations : {EmptyObject} ]

BaseOptions == [prefix |-> "beta_", podLabels |-> [defined |-> FALSE, obj |-> EmptyObject],
                maxAttempts |-> 0]

\* tier values and ceilings: the defaults, a ceiling below the TURBO tier, a
\* ceiling above every tier
ResourceOptions ==
    { EmptyObject,
      ("cpu" :> [max |-> 40, turbo |-> 80, high |-> 30, low |-> 10, micro |-> 5])
        @@ ("memory" :> [max |-> 8, turbo |-> 10, high |-> 4, low |-> 3, micro |-> 2]),
      ("cpu" :> [max |-> 200, turbo |-> 120, high |-> 60, low |-> 20, micro |-> 5])
        @@ ("memory" :> [max |-> 32, turbo |-> 16, high |-> 12, low |-> 2, micro |-> 1]) }

TimeoutOptions ==
    { EmptyObject,
      ("buildTimeout" :> 30) @@ ("maxBuildTimeout" :> 60),
      ("buildTimeout" :> 150) @@ ("maxBuildTimeout" :> 100) }

Pair(k, v) == [key |-> k, value |-> v]

PairsOptions ==
    { NoPairs,
      [defined |-> TRUE, pairs |-> << >>],
      [defined |-> TRUE, pairs |-> << Pair("key", "value") >>],
      [defined |-> TRUE, pairs |-> << Pair("key", "value"), Pair("foo", "bar") >>],
      [defined |-> TRUE, pairs |-> << Pair("screwdriver.cd/diskSpeed", "low") >>] }

SelectorOptions ==
    { ("diskSpeedLabel" :> d) @@ ("nodeSelectors" :> n) @@ ("preferredNodeSelectors" :> q) :
        d \in {"", "screwdriver.cd/diskSpeed"}, n \in PairsOptions, q \in PairsOptions }

CacheOptions ==
    { [prefix |-> x, podLabels |-> BaseOptions.podLabels, maxAttempts |-> 0,
       cacheStrategy |-> c, cachePath |-> q] :
        x \in Prefixes, c \in {"s3", "disk"}, q \in {"", "/", "/cache"} }

\* kubernetes.lifecycleHooks of the options: absent, empty, one hook, two hooks
LifecycleHookOptions ==
    { NoHooks,
      [defined |-> TRUE, obj |-> EmptyObject],
      [defined |-> TRUE, obj |-> ("postStart" :> "echo Hello World")],
      [defined |-> TRUE, obj |-> ("postStart" :> "echo Hello World")
                                  @@ ("preStop" :> "/gracefulShutDown")] }

HookOptions ==
    { [prefix |-> x, podLabels |-> BaseOptions.podLabels, maxAttempts |-> 0,
       lifecycleHooks |-> h] :
        x \in Prefixes, h \in LifecycleHookOptions }

\* executor options for the calls of createPodConfig
BuildExecutorOptions ==
    { r @@ t @@ BaseOptions : r \in ResourceOptions, t \in TimeoutOptions }
    \cup { o @@ BaseOptions : o \in SelectorOptions }
    \cup CacheOptions
    \cup HookOptions

\* ------------------------------------------- inputs of setLifecycleHooks
MaxHookCalls == 1

ContainerNames == {"beta_15", "sidecar"}

\* a container of a pod config, without or with a lifecycle of its own
ContainerKinds ==
    { ("name" :> n) : n \in ContainerNames }
    \cup { ("name" :> n) @@ ("lifecycle" :> ("preStop" :> "sleep 5")) : n \in ContainerNames }

\* lists of containers with distinct names
ContainerLists ==
    { l \in ListsOver(ContainerKinds, 2) :
        \A i, j \in 1..Len(l) : i # j => l[i]["name"] # l[j]["name"] }

\* pod configs handed to setLifecycleHooks: with and without containers
HookSpecs ==
    { ("spec.terminationGracePeriodSeconds" :> 30) }
    \cup { (CONTAINERS_PATH :> l) @@ ("spec.terminationGracePeriodSeconds" :> 30) :
             l \in ContainerLists }

VARIABLES
    this,          \* the executor: fields set by the constructor
    pods,          \* workloads existing in the cluster
    startPc,       \* position of the Start invocation
    startConfig,   \* config argument of the Start invocation
    podName,       \* workload name taken from the create response
    attempt,       \* retries of the status read made so far
    retriedPhase,  \* phase of the response whose retry is pending
    statusResp,    \* response the status read resolved to
    createResp,    \* response the create call resolved to
    startCalls,    \* calls the Start invocation handed to breaker.runCommand
    startResult,   \* outcome of the Start invocation
    rejection,     \* the call of the Start invocation that was rejected, and its error
    nStarts,       \* Start invocations begun
    stopPc,        \* position of the Stop invocation
    stopConfig,    \* config argument of the Stop invocation
    stopResp,      \* response the delete call resolved to
    stopCalls,     \* calls the Stop invocation handed to breaker.runCommand
    stopResult,    \* outcome of the Stop invocation
    nStops,        \* Stop invocations begun
    verifyPc,      \* position of the Verify invocation
    verifyConfig,  \* config argument of the Verify invocation
    verifyAttempt, \* retries of the list call made so far
    verifyCalls,   \* calls the Verify invocation handed to breaker.runCommand
    verifyResp,    \* response the list call resolved to
    verifyResult,  \* outcome of the Verify invocation
    nVerifies,     \* Verify invocations begun
    lastIndex,     \* lastIndex of PR_JOBNAME_REGEX_PATTERN
    safeLoad,      \* yaml.safeLoad of the installed js-yaml
    built,         \* the latest direct call of createPodConfig, with its result
    nBuilds,       \* direct calls of createPodConfig made
    hooked,        \* the latest direct call of setLifecycleHooks, with its result
    nHookCalls     \* direct calls of setLifecycleHooks made

startVars == <<startPc, startConfig, podName, attempt, retriedPhase, statusResp, createResp,
               startCalls, startResult, rejection, nStarts>>

stopVars == <<stopPc, stopConfig, stopResp, stopCalls, stopResult, nStops>>

verifyVars == <<verifyPc, verifyConfig, verifyAttempt, verifyCalls, verifyResp,
                verifyResult, nVerifies>>

buildVars == <<lastIndex, safeLoad, built, nBuilds, hooked, nHookCalls>>

vars == <<this, pods, startVars, stopVars, verifyVars, buildVars>>

NoConfig == [buildId |-> 0, token |-> ""]

NoSimpleResponse == [statusCode |-> 0, body |-> NoBody, name |-> Undefined]

NoRejection == [call |-> 0, error |-> NoError]

NoPodConfig == << >>

NoBuild ==
    [ called |-> FALSE, threw |-> FALSE, random |-> "", podConfig |-> NoPodConfig,
      config |-> [buildId |-> 0, token |-> "", jobName |-> "", jobId |-> "",
                  annotations |-> EmptyObject] ]

NoHookCall ==
    [ called |-> FALSE, podConfig |-> EmptyObject, lifecycleHooks |-> NoHooks,
      containerName |-> "", result |-> EmptyObject ]

\* the state after construction from one of the given options
InitWith(options) ==
    /\ this \in {Constructor(o) : o \in options}
    /\ pods = {}
    /\ startPc = "idle"
    /\ startConfig = NoConfig
    /\ podName = Undefined
    /\ attempt = 0
    /\ retriedPhase = Undefined
    /\ statusResp = NoResponse
    /\ createResp = NoSimpleResponse
    /\ startCalls = << >>
    /\ startResult = NoResult
    /\ rejection = NoRejection
    /\ nStarts = 0
    /\ stopPc = "idle"
    /\ stopConfig = NoConfig
    /\ stopResp = NoSimpleResponse
    /\ stopCalls = << >>
    /\ stopResult = NoStopResult
    /\ nStops = 0
    /\ verifyPc = "idle"
    /\ verifyConfig = NoConfig
    /\ verifyAttempt = 0
    /\ verifyCalls = << >>
    /\ verifyResp = NoListResponse
    /\ verifyResult = NoVerifyResult
    /\ nVerifies = 0
    /\ lastIndex = 0
    /\ safeLoad \in SafeLoads
    /\ built = NoBuild
    /\ nBuilds = 0
    /\ hooked = NoHookCall
    /\ nHookCalls = 0

Init == InitWith(ExecutorOptions)

\* ------------------------------------------------------------------ _start
\* the create call issued by _start
createOptions(self, podConfig) ==
    [ method |-> "POST",
      url |-> podsUrl(self),
      authorization |-> "Bearer " \o self.token,
      json |-> podConfig ]

\* the status read addressed to the workload itself
statusOptions_noStatusPath(self, name) ==
    [ method |-> "GET",
      url |-> podsUrl(self) \o "/" \o name,
      authorization |-> "Bearer " \o self.token,
      retryStatusCodes |-> StatusRetryCodes,
      retryLimit |-> self.maxAttempts ]

\* the status read issued by getPodStatus
statusOptions(self, name) ==
    [ method |-> "GET",
      url |-> podsUrl(self) \o "/" \o name \o "/status",
      authorization |-> "Bearer " \o self.token,
      retryStatusCodes |-> StatusRetryCodes,
      retryLimit |-> self.maxAttempts ]

\* _start up to the awaited create call: build the pod config and POST it
StartSubmit(config, random) ==
    /\ startPc = "idle"
    /\ nStarts < MaxStarts
    /\ nStarts' = nStarts + 1
    /\ startConfig' = config
    /\ lastIndex' = regexExec(Reach(config, "jobName", ""), lastIndex).lastIndex
    /\ IF createPodConfigThrows(config, lastIndex)
       THEN /\ startCalls' = << >>
            /\ startPc' = "failed"
            /\ startResult' = Rejected(TypeErrorNullPayload)
            /\ this' = this
       ELSE IF safeLoad = "removed"
       THEN /\ startCalls' = << >>
            /\ startPc' = "failed"
            /\ startResult' = Rejected(SafeLoadRemoved)
            /\ this' = [this EXCEPT !.cachePath = cachePathAfter(this)]
       ELSE /\ startCalls' = << createOptions(this,
                                   createPodConfig(this, config, random, lastIndex)) >>
            /\ startPc' = "submitting"
            /\ startResult' = NoResult
            /\ this' = [this EXCEPT !.cachePath = cachePathAfter(this)]
    /\ podName' = Undefined
    /\ attempt' = 0
    /\ retriedPhase' = Undefined
    /\ statusResp' = NoResponse
    /\ createResp' = NoSimpleResponse
    /\ rejection' = NoRejection
    /\ UNCHANGED <<pods, stopVars, verifyVars, safeLoad, built, nBuilds, hooked, nHookCalls>>

CreateRefusalCodes == {200, 500}

\* answers of the cluster to a create call: 201 with the name of the created
\* workload (the text of the submitted name, or one the cluster chose), or a
\* refusal
CreateResponses(call) ==
    [ statusCode : {201}, body : {NoBody},
      name : {call.json.values.build_id_with_prefix, "testpod"} ]
    \cup
    [ statusCode : CreateRefusalCodes, body : ErrorBodies, name : {"refused"} ]

\* the create call resolves: on 201 the workload exists in the cluster;
\* _start throws on a status other than 201, else takes the workload name
\* from the response and issues the status read
StartCreateResolved ==
    /\ startPc = "submitting"
    /\ \E resp \in CreateResponses(startCalls[1]) :
        /\ createResp' = resp
        /\ pods' = IF resp.statusCode = 201
                   THEN pods \cup { [ name |-> resp.name,
                                      labels |-> startCalls[1].json.metadata.labels,
                                      buildId |-> startConfig.buildId ] }
                   ELSE pods
        /\ IF createFailed(resp.statusCode)
           THEN /\ startResult' = Rejected([name |-> "Error",
                      message |-> "Failed to create pod:" \o JSONstringify(resp.body)])
                /\ startPc' = "failed"
                /\ UNCHANGED <<podName, startCalls>>
           ELSE /\ podName' = resp.name
                /\ startCalls' = Append(startCalls, statusOptions(this, resp.name))
                /\ startPc' = "awaiting_schedule"
                /\ UNCHANGED startResult
    /\ UNCHANGED <<this, startConfig, attempt, retriedPhase, statusResp, rejection, nStarts, stopVars, verifyVars, buildVars>>

\* a rejected build update logged and not rethrown
StartCallRejected_updateSwallowed(e) ==
    /\ startPc \in {"submitting", "awaiting_schedule", "reporting_interim"}
    /\ rejection' = [call |-> Len(startCalls), error |-> e]
    /\ IF startPc = "reporting_interim"
       THEN /\ startResult' = Resolved(startReturnValue(getPodStatus(statusResp).isPending))
            /\ startPc' = "done"
       ELSE /\ startResult' = Rejected(e)
            /\ startPc' = "failed"
    /\ retriedPhase' = Undefined
    /\ UNCHANGED <<this, pods, startConfig, podName, attempt, statusResp, createResp,
                   startCalls, nStarts, stopVars, verifyVars, buildVars>>

\* an awaited call of _start is rejected by the transport or the breaker:
\* the catch block rethrows the error
StartCallRejected(e) ==
    /\ startPc \in {"submitting", "awaiting_schedule", "reporting_interim"}
    /\ rejection' = [call |-> Len(startCalls), error |-> e]
    /\ startResult' = Rejected(e)
    /\ startPc' = "failed"
    /\ retriedPhase' = Undefined
    /\ UNCHANGED <<this, pods, startConfig, podName, attempt, statusResp, createResp,
                   startCalls, nStarts, stopVars, verifyVars, buildVars>>

\* the created workload deleted when getPodStatus throws
StartAfterStatus_deletesOnFailure(resp, now) ==
    LET st == getPodStatus(resp) IN
    /\ statusResp' = resp
    /\ IF st.ok
       THEN /\ startCalls' = Append(startCalls,
                  updateBuild(this, updateConfig(this, startConfig, st.nodeName, now)))
            /\ startPc' = "reporting_interim"
            /\ startResult' = startResult
            /\ pods' = pods
       ELSE /\ startCalls' = startCalls
            /\ startPc' = "failed"
            /\ startResult' = Rejected(st.error)
            /\ pods' = { p \in pods : p.name # podName }
    /\ retriedPhase' = Undefined
    /\ UNCHANGED <<this, startConfig, podName, attempt, createResp, rejection,
                   nStarts, stopVars, verifyVars, buildVars>>

\* _start after the status read resolved to resp: the rest of getPodStatus,
\* then the build update
StartAfterStatus(resp, now) ==
    LET st == getPodStatus(resp) IN
    /\ statusResp' = resp
    /\ IF st.ok
       THEN /\ startCalls' = Append(startCalls,
                  updateBuild(this, updateConfig(this, startConfig, st.nodeName, now)))
            /\ startPc' = "reporting_interim"
            /\ startResult' = startResult
       ELSE /\ startCalls' = startCalls
            /\ startPc' = "failed"
            /\ startResult' = Rejected(st.error)
    /\ retriedPhase' = Undefined
    /\ UNCHANGED <<this, pods, startConfig, podName, attempt, createResp, rejection,
                   nStarts, stopVars, verifyVars, buildVars>>

\* an attempt of the status read whose response the hook accepts
StatusAccepted(resp, now) ==
    /\ startPc = "awaiting_schedule"
    /\ scheduleStatusRetryStrategy(resp).kind = "return"
    /\ StartAfterStatus(resp, now)

\* a retry that does not count against the retry limit
StatusRetried_uncounted(resp) ==
    /\ startPc = "awaiting_schedule"
    /\ scheduleStatusRetryStrategy(resp).kind = "throw"
    /\ resp.statusCode \in startCalls[2].retryStatusCodes
    /\ attempt < startCalls[2].retryLimit
    /\ attempt' = attempt
    /\ retriedPhase' = resp.phase
    /\ UNCHANGED <<this, pods, startPc, startConfig, podName, statusResp, createResp,
                   startCalls, startResult, rejection, nStarts, stopVars, verifyVars, buildVars>>

\* an attempt whose response the hook rejects, the retry options allowing
\* another attempt
StatusRetried(resp) ==
    /\ startPc = "awaiting_schedule"
    /\ scheduleStatusRetryStrategy(resp).kind = "throw"
    /\ resp.statusCode \in startCalls[2].retryStatusCodes
    /\ attempt < startCalls[2].retryLimit
    /\ attempt' = attempt + 1
    /\ retriedPhase' = resp.phase
    /\ UNCHANGED <<this, pods, startPc, startConfig, podName, statusResp, createResp,
                   startCalls, startResult, rejection, nStarts, stopVars, verifyVars, buildVars>>

\* the hook rejects the response and the retry options allow no other attempt
RetryExhausted(resp) ==
    /\ scheduleStatusRetryStrategy(resp).kind = "throw"
    /\ \/ resp.statusCode \notin startCalls[2].retryStatusCodes
       \/ attempt >= startCalls[2].retryLimit

\* no further attempt is made and the last response is handed to getPodStatus
StatusExhaustedResolved(resp, now) ==
    /\ startPc = "awaiting_schedule"
    /\ RetryExhausted(resp)
    /\ StartAfterStatus(resp, now)

\* no further attempt is made and the hook's error is handed to getPodStatus,
\* which lets it through to _start
StatusExhaustedRejected(resp) ==
    /\ startPc = "awaiting_schedule"
    /\ RetryExhausted(resp)
    /\ rejection' = [call |-> 2, error |-> scheduleStatusRetryStrategy(resp).error]
    /\ startResult' = Rejected(scheduleStatusRetryStrategy(resp).error)
    /\ startPc' = "failed"
    /\ retriedPhase' = Undefined
    /\ UNCHANGED <<this, pods, startConfig, podName, attempt, statusResp, createResp,
                   startCalls, nStarts, stopVars, verifyVars, buildVars>>

\* the build update resolves and the status is read once more before _start
\* returns
StartUpdated_secondPoll ==
    /\ startPc = "reporting_interim"
    /\ startResult' = Resolved(startReturnValue(getPodStatus(statusResp).isPending))
    /\ startCalls' = Append(startCalls, statusOptions(this, podName))
    /\ startPc' = "done"
    /\ UNCHANGED <<this, pods, startConfig, podName, attempt, retriedPhase, statusResp, createResp,
                   rejection, nStarts, stopVars, verifyVars, buildVars>>

\* the build update resolves: _start returns !isPending
StartUpdated ==
    /\ startPc = "reporting_interim"
    /\ startResult' = Resolved(startReturnValue(getPodStatus(statusResp).isPending))
    /\ startPc' = "done"
    /\ UNCHANGED <<this, pods, startConfig, podName, attempt, retriedPhase, statusResp, createResp,
                   startCalls, rejection, nStarts, stopVars, verifyVars, buildVars>>

\* the caller has the outcome; nothing of the invocation is kept
StartReturn ==
    /\ startPc \in {"done", "failed"}
    /\ startPc' = "idle"
    /\ startConfig' = NoConfig
    /\ podName' = Undefined
    /\ attempt' = 0
    /\ retriedPhase' = Undefined
    /\ statusResp' = NoResponse
    /\ createResp' = NoSimpleResponse
    /\ startCalls' = << >>
    /\ startResult' = NoResult
    /\ rejection' = NoRejection
    /\ UNCHANGED <<this, pods, nStarts, stopVars, verifyVars, buildVars>>

\* ------------------------------------------------------------------- _stop
\* the delete call issued by _stop
deleteOptions(self, config) ==
    [ method |-> "DELETE",
      url |-> podsUrl(self),
      authorization |-> "Bearer " \o self.token,
      labelSelector |-> labelSelector(self, config.buildId) ]

StopSubmit(b) ==
    /\ stopPc = "idle"
    /\ nStops < MaxStops
    /\ nStops' = nStops + 1
    /\ stopConfig' = [buildId |-> b, token |-> ""]
    /\ stopCalls' = << deleteOptions(this, [buildId |-> b]) >>
    /\ stopResp' = NoSimpleResponse
    /\ stopResult' = NoStopResult
    /\ stopPc' = "deleting"
    /\ UNCHANGED <<this, pods, startVars, verifyVars, buildVars>>

DeleteRefusalCodes == {404, 500}

\* answers of the cluster to a delete call
DeleteResponses ==
    [ statusCode : {200}, body : {NoBody}, name : {Undefined} ]
    \cup
    [ statusCode : DeleteRefusalCodes, body : ErrorBodies, name : {Undefined} ]

\* the delete call resolves: on 200 the cluster has deleted the selected
\* workloads; _stop throws on a status other than 200, else returns null
StopResolved(resp) ==
    /\ stopPc = "deleting"
    /\ stopResp' = resp
    /\ pods' = IF resp.statusCode = 200
               THEN {p \in pods : ~Selects(stopCalls[1].labelSelector, p.labels)}
               ELSE pods
    /\ IF deleteFailed(resp.statusCode)
       THEN /\ stopResult' = StopRejected([name |-> "Error",
                  message |-> "Failed to delete pod:" \o JSONstringify(resp.body)])
            /\ stopPc' = "failed"
       ELSE /\ stopResult' = Resolved(Null)
            /\ stopPc' = "done"
    /\ UNCHANGED <<this, startVars, stopConfig, stopCalls, nStops, verifyVars, buildVars>>

\* the delete call is rejected: the catch block rethrows the error
StopCallRejected(e) ==
    /\ stopPc = "deleting"
    /\ stopResult' = StopRejected(e)
    /\ stopPc' = "failed"
    /\ UNCHANGED <<this, pods, startVars, stopConfig, stopResp, stopCalls, nStops, verifyVars, buildVars>>

StopReturn ==
    /\ stopPc \in {"done", "failed"}
    /\ stopPc' = "idle"
    /\ stopConfig' = NoConfig
    /\ stopResp' = NoSimpleResponse
    /\ stopCalls' = << >>
    /\ stopResult' = NoStopResult
    /\ UNCHANGED <<this, pods, startVars, nStops, verifyVars, buildVars>>

\* ----------------------------------------------------------------- _verify
\* _verify up to the awaited list call of getPods
VerifySubmit(b) ==
    /\ verifyPc = "idle"
    /\ nVerifies < MaxVerifies
    /\ nVerifies' = nVerifies + 1
    /\ verifyConfig' = [buildId |-> b, token |-> ""]
    /\ verifyCalls' = << getPodsOptions(this, b) >>
    /\ verifyAttempt' = 0
    /\ verifyResp' = NoListResponse
    /\ verifyResult' = NoVerifyResult
    /\ verifyPc' = "listing"
    /\ UNCHANGED <<this, pods, startVars, stopVars, buildVars>>

\* the hook rejects the response and the retry options allow no other attempt
ListRetryExhausted(resp) ==
    /\ pendingStatusRetryStrategy(resp).kind = "throw"
    /\ \/ resp.statusCode \notin verifyCalls[1].retryStatusCodes
       \/ verifyAttempt >= verifyCalls[1].retryLimit

\* the list call resolves to resp (the hook accepted it, or no further attempt
\* is made and the last response is delivered): getPods throws on a status
\* other than 200, else _verify scans the items
VerifyListDelivered(resp) ==
    /\ verifyPc = "listing"
    /\ \/ pendingStatusRetryStrategy(resp).kind = "return"
       \/ ListRetryExhausted(resp)
    /\ verifyResp' = resp
    /\ verifyResult' =
          IF resp.statusCode # 200
          THEN VerifyRejected([name |-> "Error",
                   message |-> "Failed to get pod status:" \o JSONstringify(resp.body)])
          ELSE verifyOutcome(resp.items)
    /\ verifyPc' = IF verifyResult'.kind = "resolved" THEN "done" ELSE "failed"
    /\ UNCHANGED <<this, pods, startVars, stopVars, buildVars,
                   verifyConfig, verifyAttempt, verifyCalls, nVerifies>>

\* an attempt whose response the hook rejects, the retry options allowing
\* another attempt
VerifyListRetried(resp) ==
    /\ verifyPc = "listing"
    /\ pendingStatusRetryStrategy(resp).kind = "throw"
    /\ resp.statusCode \in verifyCalls[1].retryStatusCodes
    /\ verifyAttempt < verifyCalls[1].retryLimit
    /\ verifyAttempt' = verifyAttempt + 1
    /\ verifyResp' = resp
    /\ UNCHANGED <<this, pods, startVars, stopVars, buildVars,
                   verifyPc, verifyConfig, verifyCalls, verifyResult, nVerifies>>

\* no further attempt is made and the hook's error is handed to getPods,
\* which lets it through to _verify and its caller
VerifyListExhaustedRejected(resp) ==
    /\ verifyPc = "listing"
    /\ ListRetryExhausted(resp)
    /\ verifyResp' = resp
    /\ verifyResult' = VerifyRejected(pendingStatusRetryStrategy(resp).error)
    /\ verifyPc' = "rejected"
    /\ UNCHANGED <<this, pods, startVars, stopVars, buildVars,
                   verifyConfig, verifyAttempt, verifyCalls, nVerifies>>

\* the list call is rejected by the transport or the breaker
VerifyCallRejected(e) ==
    /\ verifyPc = "listing"
    /\ verifyResult' = VerifyRejected(e)
    /\ verifyPc' = "rejected"
    /\ UNCHANGED <<this, pods, startVars, stopVars, buildVars,
                   verifyConfig, verifyAttempt, verifyCalls, verifyResp, nVerifies>>

VerifyReturn ==
    /\ verifyPc \in {"done", "failed", "rejected"}
    /\ verifyPc' = "idle"
    /\ verifyConfig' = NoConfig
    /\ verifyAttempt' = 0
    /\ verifyCalls' = << >>
    /\ verifyResp' = NoListResponse
    /\ verifyResult' = NoVerifyResult
    /\ UNCHANGED <<this, pods, startVars, stopVars, buildVars, nVerifies>>

\* --------------------------------------------------------- createPodConfig
\* a call of createPodConfig(config): the pattern's lastIndex moves, the pod
\* config is built (or the call throws) and this.cachePath is reassigned
CreatePodConfig(config, random) ==
    /\ nBuilds < MaxBuilds
    /\ nBuilds' = nBuilds + 1
    /\ lastIndex' = regexExec(Reach(config, "jobName", ""), lastIndex).lastIndex
    /\ IF createPodConfigThrows(config, lastIndex)
       THEN /\ built' = [ called |-> TRUE, threw |-> TRUE, random |-> random,
                          podConfig |-> NoPodConfig, config |-> config ]
            /\ this' = this
       ELSE IF safeLoad = "removed"
       THEN /\ built' = [ called |-> TRUE, threw |-> TRUE, random |-> random,
                          podConfig |-> NoPodConfig, config |-> config ]
            /\ this' = [this EXCEPT !.cachePath = cachePathAfter(this)]
       ELSE /\ built' = [ called |-> TRUE, threw |-> FALSE, random |-> random,
                          podConfig |-> createPodConfig(this, config, random, lastIndex),
                          config |-> config ]
            /\ this' = [this EXCEPT !.cachePath = cachePathAfter(this)]
    /\ UNCHANGED <<pods, startVars, stopVars, verifyVars, safeLoad, hooked, nHookCalls>>

\* ------------------------------------------------------- setLifecycleHooks
\* a call of setLifecycleHooks(podConfig, lifecycleHooks, containerName)
SetLifecycleHooks(podConfig, lifecycleHooks, containerName) ==
    /\ nHookCalls < MaxHookCalls
    /\ nHookCalls' = nHookCalls + 1
    /\ hooked' = [ called |-> TRUE, podConfig |-> podConfig,
                   lifecycleHooks |-> lifecycleHooks, containerName |-> containerName,
                   result |-> setLifecycleHooks(podConfig, lifecycleHooks, containerName) ]
    /\ UNCHANGED <<this, pods, startVars, stopVars, verifyVars, lastIndex, safeLoad, built,
                   nBuilds>>

\* ---------------------------------------------------------- specifications
\* the steps of Start, the status read answering from the set responses
StartSteps(responses) ==
    \/ StartCreateResolved
    \/ \E e \in TransportErrors : StartCallRejected(e)
    \/ \E resp \in responses, now \in Times : StatusAccepted(resp, now)
    \/ \E resp \in responses : StatusRetried(resp)
    \/ \E resp \in responses, now \in Times : StatusExhaustedResolved(resp, now)
    \/ \E resp \in responses : StatusExhaustedRejected(resp)
    \/ StartUpdated
    \/ StartReturn

\* the config of a Start invocation: the build id and the token
StartConfigs == [buildId : BuildIds, token : Tokens]

\* Start invoked at any time, and its steps
StartNext(responses) ==
    \/ \E config \in StartConfigs, r \in RandomSuffixes : StartSubmit(config, r)
    \/ StartSteps(responses)

StopSteps ==
    \/ \E resp \in DeleteResponses : StopResolved(resp)
    \/ \E e \in TransportErrors : StopCallRejected(e)
    \/ StopReturn

StopNext ==
    \/ \E b \in BuildIds : StopSubmit(b)
    \/ StopSteps

\* Start and Stop invoked concurrently on one executor
Next == StartNext(CoreStatusResponses) \/ StopNext

Spec == Init /\ [][Next]_vars

\* the Start protocol alone, over every status response, on an executor
\* without custom pod labels
InitStart == Init /\ ~this.podLabels.defined

NextStart == StartNext(StatusResponses)

SpecStart == InitStart /\ [][NextStart]_vars

\* Start and Stop invoked concurrently on an executor without custom pod
\* labels
SpecRace == InitStart /\ [][Next]_vars

\* the Start protocol under the assumption that every awaited call is
\* eventually answered or rejected, so that an invocation in flight
\* eventually takes its next step
LiveStatusResponses ==
    { r \in StatusResponses :
        /\ r.phase \in {"Pending", "Running", Undefined}
        /\ r.nodeName = Undefined
        /\ r.waitingReason = Undefined
        /\ Len(r.body) < 2 }

NextLive == StartNext(LiveStatusResponses)

SpecStartLive == InitStart /\ [][NextLive]_vars /\ WF_vars(NextLive)

\* the Stop protocol alone
NextStop == StopNext

SpecStop == Init /\ [][NextStop]_vars

\* the Verify protocol alone
VerifySteps(responses) ==
    \/ \E resp \in responses : VerifyListDelivered(resp)
    \/ \E resp \in responses : VerifyListRetried(resp)
    \/ \E resp \in responses : VerifyListExhaustedRejected(resp)
    \/ \E e \in TransportErrors : VerifyCallRejected(e)
    \/ VerifyReturn

VerifyNext ==
    \/ \E b \in BuildIds : VerifySubmit(b)
    \/ VerifySteps(ListResponses)

NextVerify == VerifyNext

SpecVerify == InitStart /\ [][NextVerify]_vars

\* createPodConfig called on executors of every configuration
InitBuild == InitWith(BuildExecutorOptions)

NextBuild == \E config \in BuildConfigs, random \in RandomSuffixes : CreatePodConfig(config, random)

SpecBuild == InitBuild /\ [][NextBuild]_vars

\* setLifecycleHooks called on pod configs of every shape, and through
\* createPodConfig on executors of every lifecycleHooks configuration
InitHooks == InitWith(HookOptions)

NextHooks ==
    \/ \E podConfig \in HookSpecs, lifecycleHooks \in LifecycleHookOptions,
          containerName \in {"beta_15", "do_no_exist"} :
            SetLifecycleHooks(podConfig, lifecycleHooks, containerName)
    \/ \E config \in { c \in BuildConfigs : c.jobName = "" /\ c.annotations = EmptyObject },
          random \in RandomSuffixes :
            CreatePodConfig(config, random)

SpecHooks == InitHooks /\ [][NextHooks]_vars

\* sequences of Start, Stop and Verify invocations on one executor, one
\* invocation at a time, on executors of every cache configuration
InitOps == InitWith(CacheOptions)

\* no invocation is in flight
Quiet == startPc = "idle" /\ stopPc = "idle" /\ verifyPc = "idle"

\* the configs of Start here: those above, and pull-request jobs with a
\* token that decodes and one that does not
OpsStartConfigs ==
    StartConfigs
    \cup [ buildId : {15}, token : {"abcdefg", "jwt.parent"}, jobName : {"PR-15"},
           jobId : {"1234"} ]

NextOps ==
    \/ \E config \in OpsStartConfigs, r \in RandomSuffixes :
          Quiet /\ StartSubmit(config, r)
    \/ \E b \in BuildIds : Quiet /\ StopSubmit(b)
    \/ \E b \in BuildIds : Quiet /\ VerifySubmit(b)
    \/ StartSteps(CoreStatusResponses)
    \/ StopSteps
    \/ VerifySteps(CoreListResponses)

SpecOps == InitOps /\ [][NextOps]_vars

\* ------------------------------------------------------------------ claims
\* what the claims expect, written out independently of the operators above
ExpectedJSON(body) ==
    CASE body = << <<"error", "s", "foo">> >> -> "{\"error\":\"foo\"}"
      [] body = << <<"statusCode", "n", 500>>, <<"message", "s", "lol">> >>
            -> "{\"statusCode\":500,\"message\":\"lol\"}"
      [] OTHER -> "{}"

ExpectedPodsUrl == "https://kubernetes.default/api/v1/namespaces/default/pods"

ExpectedSelector(prefix, b) ==
    CASE prefix = "" /\ b = 15 -> "sdbuild=15"
      [] prefix = "" /\ b = 16 -> "sdbuild=16"
      [] prefix = "" /\ b = 17 -> "sdbuild=17"
      [] prefix = "beta_" /\ b = 15 -> "sdbuild=beta_15"
      [] prefix = "beta_" /\ b = 16 -> "sdbuild=beta_16"
      [] prefix = "beta_" /\ b = 17 -> "sdbuild=beta_17"
      [] OTHER -> "?"

PhaseIsFatal(phase) ==
    phase \in {"Failed", "failed", "FAILED", "Unknown", "unknown", "UNKNOWN"}

PhaseIsPending(phase) == phase \in {"Pending", "pending", "PENDING"}

\* the create call resolved with 201 and the status read with 200 and a
\* phase other than failed or unknown
CreatedAndStatusGood ==
    /\ createResp.statusCode = 201
    /\ statusResp.statusCode = 200
    /\ ~PhaseIsFatal(statusResp.phase)

ImageMessage == "Build failed to start. Please check if your image is valid."

AdminMessage == "Build failed to start. Please reach out to your cluster admin for help."

\* C1: when the create call returns 201 and the status read returns 200 with
\* a phase other than failed or unknown, Start has issued exactly three
\* calls, in this order: a POST to the pods collection, a GET on
\* <collection>/<name>/status with the name of the create response (however
\* many attempts the read took), and a PUT; it returns with these three calls.
C1_ThreeCallsInOrder ==
    CreatedAndStatusGood =>
        /\ startPc \in {"reporting_interim", "done", "failed"}
        /\ Len(startCalls) = 3
        /\ startCalls[1].method = "POST"
        /\ startCalls[1].url = ExpectedPodsUrl
        /\ startCalls[2].method = "GET"
        /\ startCalls[2].url = ExpectedPodsUrl \o "/" \o createResp.name \o "/status"
        /\ startCalls[3].method = "PUT"

\* a Start that returned after a retried status read on a workload the
\* cluster named itself
C1_Witness ==
    /\ startPc = "done"
    /\ CreatedAndStatusGood
    /\ attempt > 0
    /\ createResp.name = "testpod"
    /\ Len(startCalls) = 3

\* C2: the build update sent after the status read carries stats {hostname =
\* assigned node, imagePullStartTime} and no statusMessage when the status
\* response names a node, and the statusMessage 'Waiting for resources to be
\* available.' and no stats when it names none; never both, never neither.
C2_StatsOrMessage ==
    Len(startCalls) >= 3 =>
        LET json == startCalls[3].json IN
        IF statusResp.nodeName # Undefined
        THEN /\ DOMAIN json = {"stats"}
             /\ json["stats"].hostname = statusResp.nodeName
             /\ "imagePullStartTime" \in DOMAIN json["stats"]
        ELSE /\ DOMAIN json = {"statusMessage"}
             /\ json["statusMessage"] = "Waiting for resources to be available."

\* a build update for a workload that has a node, sent by a Start that returned
C2_Witness ==
    /\ startPc = "done"
    /\ Len(startCalls) = 3
    /\ statusResp.nodeName = "node1.my.k8s.cluster.com"
    /\ "stats" \in DOMAIN startCalls[3].json

\* C3: when the create call returns a status other than 201, Start fails with
\* 'Failed to create pod:' followed by the JSON of the response body, having
\* issued neither a status read nor a build update.
C3_CreateRefused ==
    (createResp.statusCode # 0 /\ createResp.statusCode # 201) =>
        /\ startPc = "failed"
        /\ startResult.kind = "rejected"
        /\ startResult.error.message = "Failed to create pod:" \o ExpectedJSON(createResp.body)
        /\ Len(startCalls) = 1
        /\ startCalls[1].method = "POST"

\* a create call answered 200, which is not 201
C3_Witness ==
    /\ createResp.statusCode = 200
    /\ startPc = "failed"
    /\ startResult.error.message = "Failed to create pod:{\"statusCode\":500,\"message\":\"lol\"}"

\* C4: when the status read resolves with 200 and phase failed or unknown in
\* any letter case, Start fails with 'Failed to create pod. Pod status is:
\* <phase in lower case>'; when it resolves with another status, Start fails
\* with 'Failed to get pod status:' followed by the JSON of the body; in both
\* cases no build update is issued.
C4_StatusFailure ==
    /\ (statusResp.statusCode = 200 /\ PhaseIsFatal(statusResp.phase)) =>
        /\ startPc = "failed"
        /\ startResult.kind = "rejected"
        /\ startResult.error.message =
              "Failed to create pod. Pod status is: "
              \o (IF statusResp.phase \in {"Failed", "failed", "FAILED"}
                  THEN "failed" ELSE "unknown")
        /\ Len(startCalls) = 2
    /\ (statusResp.statusCode # 0 /\ statusResp.statusCode # 200) =>
        /\ startPc = "failed"
        /\ startResult.kind = "rejected"
        /\ startResult.error.message =
              "Failed to get pod status:" \o ExpectedJSON(statusResp.body)
        /\ Len(startCalls) = 2

\* a Start failed on a phase written in upper case
C4_Witness ==
    /\ startPc = "failed"
    /\ statusResp.statusCode = 200
    /\ statusResp.phase = "FAILED"
    /\ startResult.error.message = "Failed to create pod. Pod status is: failed"

\* C5 as claimed: a status read reporting a waiting reason of the image set
\* makes Start fail with the invalid-image message, one of the container set
\* with the cluster-admin message, and Start never returns normally.
C5_Claimed ==
    /\ (statusResp.statusCode = 200 /\ statusResp.waitingReason \in FatalImageReasons) =>
        (startPc = "failed" /\ startResult.error.message = ImageMessage)
    /\ (statusResp.statusCode = 200 /\ statusResp.waitingReason \in FatalConfigReasons) =>
        (startPc = "failed" /\ startResult.error.message = AdminMessage)

\* C5 amended: a waiting reason reported by the status read never makes Start
\* fail: with status 200 and a phase other than failed or unknown Start goes
\* on to the build update whatever the waiting reason, failing only if that
\* call is rejected, and Start never fails with the invalid-image or the
\* cluster-admin message.
C5_WaitingReasonIgnored ==
    /\ startResult.error.message \notin {ImageMessage, AdminMessage}
    /\ (/\ statusResp.statusCode = 200
        /\ statusResp.waitingReason \in FatalImageReasons \cup FatalConfigReasons
        /\ ~PhaseIsFatal(statusResp.phase)) =>
            /\ Len(startCalls) = 3
            /\ startCalls[3].method = "PUT"
            /\ startResult.error \in TransportErrors \cup {NoError}

\* a Start that returned normally although the status read reported ErrImagePull
C5_Witness ==
    /\ startPc = "done"
    /\ startResult.kind = "resolved"
    /\ statusResp.waitingReason = "ErrImagePull"
    /\ statusResp.phase = "Pending"

\* C6 as claimed: no successful Start returns without a second status poll
\* made after the interim build update.
C6_Claimed ==
    startPc = "done" =>
        \E i \in 1..Len(startCalls) : i > 3 /\ startCalls[i].method = "GET"

C6_Step ==
    /\ startPc' = "submitting" => startPc \in {"idle", "submitting"}
    /\ startPc' = "awaiting_schedule" => startPc \in {"submitting", "awaiting_schedule"}
    /\ startPc' = "reporting_interim" => startPc \in {"awaiting_schedule", "reporting_interim"}
    /\ startPc' = "done" =>
        /\ startPc \in {"reporting_interim", "done"}
        /\ Len(startCalls') = 3
        /\ startCalls'[1].method = "POST"
        /\ startCalls'[2].method = "GET"
        /\ startCalls'[3].method = "PUT"

\* C6 amended: every successful Start passes through the phases submit,
\* await-schedule, report-interim, done in that order and returns right after
\* the interim build update: it has issued one create, one status read and
\* one build update, and no second status poll.
C6_PhasesWithoutSecondPoll == [][C6_Step]_vars

\* a Start that returned with the build update as its last call
C6_Witness ==
    /\ startPc = "done"
    /\ startResult.kind = "resolved"
    /\ startCalls[Len(startCalls)].method = "PUT"

\* C7: the value Start resolves to is true exactly when the phase of the last
\* status read is pending, and false when it is running or succeeded.
C7_Claimed ==
    startPc = "done" =>
        (startResult.value <=> PhaseIsPending(statusResp.phase))

\* the build update of the invocation was rejected
UpdateRejected ==
    /\ rejection.call = 3
    /\ Len(startCalls) = 3
    /\ startCalls[3].method = "PUT"

\* C8 as claimed: a failing build update does not abort Start: when create
\* and status read succeeded and the build update fails, Start completes
\* successfully.
C8_Claimed == UpdateRejected => startPc = "done"

\* C8 amended: a failing build update aborts Start: when create and status
\* read succeeded and the build update is rejected, Start fails with the
\* error of the build update.
C8_UpdateFailureAborts ==
    UpdateRejected =>
        /\ CreatedAndStatusGood
        /\ startPc = "failed"
        /\ startResult.kind = "rejected"
        /\ startResult.error = rejection.error

\* a Start whose build update was rejected after a good status read
C8_Witness ==
    /\ UpdateRejected
    /\ CreatedAndStatusGood
    /\ startResult.error.message = "lol"

\* C9: Stop(b) issues exactly one call, a DELETE on the pods collection with
\* labelSelector 'sdbuild=<prefix><b>'; a 200 response makes it resolve to
\* null and any other status makes it fail with 'Failed to delete pod:'
\* followed by the JSON of the response body.
C9_StopOneDelete ==
    /\ stopPc # "idle" =>
        /\ Len(stopCalls) = 1
        /\ stopCalls[1].method = "DELETE"
        /\ stopCalls[1].url = ExpectedPodsUrl
        /\ stopCalls[1].labelSelector = ExpectedSelector(this.prefix, stopConfig.buildId)
    /\ stopResp.statusCode = 200 =>
        (stopPc = "done" /\ stopResult.kind = "resolved" /\ stopResult.value = Null)
    /\ (stopResp.statusCode # 0 /\ stopResp.statusCode # 200) =>
        /\ stopPc = "failed"
        /\ stopResult.kind = "rejected"
        /\ stopResult.error.message = "Failed to delete pod:" \o ExpectedJSON(stopResp.body)

\* Stop for build 15 with prefix beta_ failed on a 500 response
C9_Witness ==
    /\ stopPc = "failed"
    /\ this.prefix = "beta_"
    /\ stopConfig.buildId = 15
    /\ stopResp.statusCode = 500
    /\ stopCalls[1].labelSelector = "sdbuild=beta_15"
    /\ stopResult.error.message = "Failed to delete pod:{\"error\":\"foo\"}"

\* C10: whatever the podLabels of the configuration, every workload created
\* by Start(b) carries app=screwdriver, tier=builds and sdbuild=<prefix><b>,
\* and is selected by the label selector that Stop(b) and Verify(b) use.
C10_Claimed ==
    \A p \in pods :
        /\ {"app", "tier", "sdbuild"} \subseteq DOMAIN p.labels
        /\ p.labels["app"] = "screwdriver"
        /\ p.labels["tier"] = "builds"
        /\ "sdbuild=" \o p.labels["sdbuild"] = ExpectedSelector(this.prefix, p.buildId)
        /\ Selects(labelSelector(this, p.buildId), p.labels)

\* ------------------------------------------------------------ Verify claims
InitializingMessage == "Build failed to start. Pod is still intializing."

WorkloadIsFatal(p) ==
    \/ PhaseIsFatal(p.phase)
    \/ p.waitingReason \in {"CrashLoopBackOff", "CreateContainerConfigError",
                            "CreateContainerError", "StartError",
                            "ErrImagePull", "ImagePullBackOff", "InvalidImageName"}

ExpectedWorkloadMessage(p) ==
    CASE p.phase \in {"Failed", "failed", "FAILED"} -> "Failed to create pod. Pod status is: failed"
      [] p.phase \in {"Unknown", "unknown", "UNKNOWN"} -> "Failed to create pod. Pod status is: unknown"
      [] p.waitingReason \in {"CrashLoopBackOff", "CreateContainerConfigError",
                              "CreateContainerError", "StartError"} -> AdminMessage
      [] p.waitingReason \in {"ErrImagePull", "ImagePullBackOff", "InvalidImageName"}
            -> ImageMessage
      [] OTHER -> Undefined

SomeFatal(items) == \E i \in 1..Len(items) : WorkloadIsFatal(items[i])

FirstFatal(items) ==
    items[CHOOSE i \in 1..Len(items) :
            /\ WorkloadIsFatal(items[i])
            /\ \A j \in 1..(i - 1) : ~WorkloadIsFatal(items[j])]

\* getPods returned the items of a 200 list response and _verify has finished
VerifyScanned ==
    /\ verifyPc \in {"done", "failed"}
    /\ verifyResp.statusCode = 200

\* C11 as claimed: whenever the list returned for a build holds a fatal
\* workload, Verify returns the message of the first fatal workload in list
\* order, a failed or unknown phase taking precedence over any waiting reason.
C11_Claimed ==
    (VerifyScanned /\ SomeFatal(verifyResp.items))
        => verifyResult = Resolved(ExpectedWorkloadMessage(FirstFatal(verifyResp.items)))

\* C12 as claimed: Verify raises the still-initializing error exactly when
\* every listed workload waits in PodInitializing; with a fatal workload it
\* returns that workload's message, and with a workload that is neither fatal
\* nor initializing (and none fatal) it returns no message; neither case raises.
C12_Claimed ==
    VerifyScanned =>
        LET items == verifyResp.items
            allInitializing ==
                /\ Len(items) > 0
                /\ \A i \in 1..Len(items) :
                      ~WorkloadIsFatal(items[i]) /\ items[i].waitingReason = "PodInitializing"
        IN  /\ (verifyResult.kind = "rejected") <=> allInitializing
            /\ verifyResult.kind = "rejected" => verifyResult.error.message = InitializingMessage
            /\ SomeFatal(items) =>
                  verifyResult = Resolved(ExpectedWorkloadMessage(FirstFatal(items)))
            /\ (~SomeFatal(items) /\ ~allInitializing /\ Len(items) > 0) =>
                  verifyResult = Resolved(Undefined)

\* C13 as claimed: Verify(b) hands exactly one call to the transport, a GET on
\* the pods collection with labelSelector sdbuild=<prefix><b>, and a 200
\* response listing workloads is final on the first attempt: the hook of the
\* list call never makes it a retry trigger.
C13_Claimed ==
    /\ verifyPc # "idle" =>
          /\ Len(verifyCalls) = 1
          /\ verifyCalls[1].method = "GET"
          /\ verifyCalls[1].url = ExpectedPodsUrl
          /\ verifyCalls[1].labelSelector = ExpectedSelector(this.prefix, verifyConfig.buildId)
    /\ (verifyResp.statusCode = 200 /\ Len(verifyResp.items) > 0) =>
          /\ verifyAttempt = 0
          /\ VerifyScanned

\* --------------------------------------------------- createPodConfig claims
\* createPodConfig has been called and has returned a pod config
Built == built.called /\ ~built.threw

BuiltAnnotations == built.config.annotations

BuiltValues == built.podConfig.values

\* the configured value of a tier, CPU in tenths of a core and memory in GB
ExpectedCpuTier(t) ==
    CASE t = "MICRO" -> this.microCpu
      [] t = "LOW" -> this.lowCpu
      [] t = "HIGH" -> this.highCpu
      [] t = "TURBO" -> this.turboCpu
      [] t = "MAX" -> this.maxCpu

ExpectedMemoryTier(t) ==
    CASE t = "MICRO" -> this.microMemory
      [] t = "LOW" -> this.lowMemory
      [] t = "HIGH" -> this.highMemory
      [] t = "TURBO" -> this.turboMemory
      [] t = "MAX" -> this.maxMemory

IsTier(annotations, key) ==
    key \in DOMAIN annotations /\ annotations[key].type = "string" /\ annotations[key].s \in Tiers

IsNumber(annotations, key) ==
    key \in DOMAIN annotations /\ annotations[key].type = "number"

\* the annotation names a property the tier tables inherit
NamesInherited(annotations, key) ==
    /\ key \in DOMAIN annotations
    /\ annotations[key].type = "string"
    /\ annotations[key].s \in ObjectPrototypeKeys

\* C14 as claimed: a tier given as the cpu annotation resolves to the
\* configured value of that tier times 1000, a tier given as the ram
\* annotation to the configured value of that tier, MAX being the ceiling,
\* and a missing annotation to the LOW tier.
C14_Claimed ==
    Built =>
        /\ IsTier(BuiltAnnotations, "cpu") =>
              BuiltValues.cpu = ExpectedCpuTier(BuiltAnnotations["cpu"].s) * 100
        /\ IsTier(BuiltAnnotations, "ram") =>
              BuiltValues.memory = ExpectedMemoryTier(BuiltAnnotations["ram"].s)
        /\ "cpu" \notin DOMAIN BuiltAnnotations => BuiltValues.cpu = this.lowCpu * 100
        /\ "ram" \notin DOMAIN BuiltAnnotations => BuiltValues.memory = this.lowMemory

\* C15: an integer cpu annotation v resolves to min(v, CPU ceiling) * 1000
\* and an integer ram annotation v to min(v, memory ceiling).
C15_IntegerClamped ==
    Built =>
        /\ IsNumber(BuiltAnnotations, "cpu") =>
              LET v == BuiltAnnotations["cpu"].n * 10 IN
              BuiltValues.cpu = (IF v <= this.maxCpu THEN v ELSE this.maxCpu) * 100
        /\ IsNumber(BuiltAnnotations, "ram") =>
              LET v == BuiltAnnotations["ram"].n IN
              BuiltValues.memory = (IF v <= this.maxMemory THEN v ELSE this.maxMemory)

\* a ram annotation above the ceiling was resolved to the ceiling, and a cpu
\* annotation below the ceiling to its own value
C15_Witness ==
    /\ Built
    /\ IsNumber(BuiltAnnotations, "ram")
    /\ BuiltAnnotations["ram"].n > this.maxMemory
    /\ BuiltValues.memory = this.maxMemory
    /\ BuiltValues.memory < 64

\* C16 as claimed: whatever the annotation and the configuration, the
\* resolved CPU never exceeds the CPU ceiling times 1000 and the resolved
\* memory never exceeds the memory ceiling.  A result that is no number (an
\* annotation naming an inherited property) exceeds nothing.
C16_Claimed ==
    Built =>
        /\ ~NamesInherited(BuiltAnnotations, "cpu") =>
              BuiltValues.cpu <= this.maxCpu * 100
        /\ ~NamesInherited(BuiltAnnotations, "ram") =>
              BuiltValues.memory <= this.maxMemory

\* C16 amended: an integer annotation never resolves above the ceiling; an
\* annotation naming a property the tier table inherits (toString,
\* constructor, ...) resolves to no number at all, the CPU to NaN and the
\* memory to the inherited property; any other annotation (tier, other
\* unrecognized value, absent) resolves to the configured value of a tier,
\* whether or not that value is below the ceiling.
C16_CeilingForIntegers ==
    Built =>
        /\ IsNumber(BuiltAnnotations, "cpu") => BuiltValues.cpu <= this.maxCpu * 100
        /\ IsNumber(BuiltAnnotations, "ram") => BuiltValues.memory <= this.maxMemory
        /\ NamesInherited(BuiltAnnotations, "cpu") => BuiltValues.cpu = "NaN"
        /\ NamesInherited(BuiltAnnotations, "ram") =>
              BuiltValues.memory = "Object.prototype." \o BuiltAnnotations["ram"].s
        /\ (~IsNumber(BuiltAnnotations, "cpu") /\ ~NamesInherited(BuiltAnnotations, "cpu")) =>
              BuiltValues.cpu \in { ExpectedCpuTier(t) * 100 : t \in Tiers }
        /\ (~IsNumber(BuiltAnnotations, "ram") /\ ~NamesInherited(BuiltAnnotations, "ram")) =>
              BuiltValues.memory \in { ExpectedMemoryTier(t) : t \in Tiers \ {"MAX"} }

\* the TURBO tier, configured above the ceiling, was resolved above the ceiling
C16_Witness ==
    /\ Built
    /\ IsTier(BuiltAnnotations, "cpu")
    /\ BuiltAnnotations["cpu"].s = "TURBO"
    /\ this.turboCpu > this.maxCpu
    /\ BuiltValues.cpu = this.turboCpu * 100
    /\ BuiltValues.cpu > this.maxCpu * 100

\* C17 as claimed: the timeout of the pod config is min(a, maxBuildTimeout)
\* whenever a timeout annotation a is supplied, and the configured
\* buildTimeout when none is supplied.
C17_Claimed ==
    Built =>
        IF "timeout" \in DOMAIN BuiltAnnotations
        THEN LET a == BuiltAnnotations["timeout"].n IN
             BuiltValues.build_timeout =
                 (IF a <= this.maxBuildTimeout THEN a ELSE this.maxBuildTimeout)
        ELSE BuiltValues.build_timeout = this.buildTimeout

\* C17 amended: the timeout of the pod config is min(a, maxBuildTimeout)
\* whenever a timeout annotation a other than 0 is supplied, and the
\* configured buildTimeout when the annotation is 0 or not supplied.
C17_TimeoutClamped ==
    Built =>
        IF "timeout" \in DOMAIN BuiltAnnotations /\ BuiltAnnotations["timeout"].n # 0
        THEN LET a == BuiltAnnotations["timeout"].n IN
             BuiltValues.build_timeout =
                 (IF a <= this.maxBuildTimeout THEN a ELSE this.maxBuildTimeout)
        ELSE BuiltValues.build_timeout = this.buildTimeout

\* a timeout annotation above the maximum was resolved to the maximum
C17_Witness ==
    /\ Built
    /\ "timeout" \in DOMAIN BuiltAnnotations
    /\ BuiltAnnotations["timeout"].n > this.maxBuildTimeout
    /\ BuiltValues.build_timeout = this.maxBuildTimeout
    /\ this.buildTimeout # this.maxBuildTimeout

\* the required node-selector pairs of the built pod config: the pairs of
\* the configured node selectors, and the disk speed pair unless a configured
\* pair has its key
ExplicitPairs ==
    IF this.nodeSelectors.defined
    THEN { this.nodeSelectors.pairs[i] : i \in 1..Len(this.nodeSelectors.pairs) }
    ELSE {}

DiskSpeedPairs ==
    IF this.diskSpeedLabel # "" /\ "diskSpeed" \in DOMAIN BuiltAnnotations
    THEN { [key |-> this.diskSpeedLabel, value |-> "high"] }
    ELSE {}

RequiredPairs ==
    ExplicitPairs \cup { d \in DiskSpeedPairs : \A e \in ExplicitPairs : e.key # d.key }

\* the sequence list holds exactly one element Image(p) for each p of pairs
OnePerPair(list, pairs, Image(_)) ==
    /\ Len(list) = Cardinality(pairs)
    /\ \A p \in pairs : Cardinality({ i \in 1..Len(list) : list[i] = Image(p) }) = 1

ExpectedToleration(p) ==
    [key |-> p.key, value |-> p.value, effect |-> "NoSchedule", operator |-> "Equal"]

ExpectedExpression(p) == [key |-> p.key, operator |-> "In", values |-> << p.value >>]

\* C18: the pod config holds exactly one toleration and exactly one required
\* match expression for each required node-selector pair, and neither
\* tolerations nor a required affinity when there is no pair.
C18_OnePerRequiredPair ==
    Built =>
        LET spec == built.podConfig.spec IN
        IF RequiredPairs = {}
        THEN /\ TOLERATIONS_PATH \notin DOMAIN spec
             /\ AFFINITY_NODE_SELECTOR_PATH \notin DOMAIN spec
        ELSE /\ TOLERATIONS_PATH \in DOMAIN spec
             /\ AFFINITY_NODE_SELECTOR_PATH \in DOMAIN spec
             /\ OnePerPair(spec[TOLERATIONS_PATH], RequiredPairs, ExpectedToleration)
             /\ OnePerPair(spec[AFFINITY_NODE_SELECTOR_PATH], RequiredPairs, ExpectedExpression)

\* a pod config was built from two configured pairs and the disk speed pair
C18_Witness ==
    /\ Built
    /\ Cardinality(RequiredPairs) = 3
    /\ DiskSpeedPairs \subseteq RequiredPairs
    /\ DiskSpeedPairs # {}
    /\ Len(built.podConfig.spec[TOLERATIONS_PATH]) = 3

PreferredPairs ==
    IF this.preferredNodeSelectors.defined
    THEN { this.preferredNodeSelectors.pairs[i] :
             i \in 1..Len(this.preferredNodeSelectors.pairs) }
    ELSE {}

\* C19: for preferred pairs the pod config holds exactly one preferred
\* entry, of weight 100, whose matchExpressions hold exactly one element for
\* each pair; without preferred pairs it holds no preferred affinity.
C19_OnePreferredEntry ==
    Built =>
        LET spec == built.podConfig.spec IN
        IF PreferredPairs = {}
        THEN AFFINITY_PREFERRED_NODE_SELECTOR_PATH \notin DOMAIN spec
        ELSE /\ AFFINITY_PREFERRED_NODE_SELECTOR_PATH \in DOMAIN spec
             /\ LET entries == spec[AFFINITY_PREFERRED_NODE_SELECTOR_PATH] IN
                /\ Len(entries) = 1
                /\ entries[1].weight = 100
                /\ OnePerPair(entries[1].preference.matchExpressions, PreferredPairs,
                              ExpectedExpression)

\* a pod config was built from two preferred pairs
C19_Witness ==
    /\ Built
    /\ Cardinality(PreferredPairs) = 2
    /\ Len(built.podConfig.spec[AFFINITY_PREFERRED_NODE_SELECTOR_PATH]) = 1

\* two pod configs that differ at most in the random suffix of the name
SameExceptSuffix(a, b) ==
    /\ a.metadata.name = b.metadata.name
    /\ [k \in DOMAIN a.values \ {"pod_name"} |-> a.values[k]]
         = [k \in DOMAIN b.values \ {"pod_name"} |-> b.values[k]]
    /\ SubSeq(a.values.pod_name, 1, Len(a.values.pod_name) - 5)
         = SubSeq(b.values.pod_name, 1, Len(b.values.pod_name) - 5)
    /\ a.spec = b.spec
    /\ a.metadata.labels = b.metadata.labels

C20_Step ==
    (/\ Built
     /\ nBuilds' = nBuilds + 1
     /\ built'.called /\ ~built'.threw
     /\ built'.config = built.config)
        => SameExceptSuffix(built'.podConfig, built.podConfig)

\* C20 as claimed: a pod config built again on the same executor from the
\* same build descriptor equals the one built before, the random suffix of
\* the name apart, for every configuration.
C20_Claimed == [][C20_Step]_vars

\* ------------------------------------------------- claims on the operations
\* C21: no operation changes the configuration of the executor: over any
\* sequence of Start, Stop and Verify invocations every field set by the
\* constructor keeps its constructor-time value.
C21_Claimed == [][this' = this]_vars

\* C22: when an awaited call of Start (the create, the status read or the
\* build update) is rejected with an error of the transport or the breaker,
\* Start fails with that same error, and the rejected call is the last call
\* of the invocation: from the failure on nothing is issued.
C22_RejectionSurfaces ==
    rejection.call # 0 =>
        /\ startPc = "failed"
        /\ startResult.kind = "rejected"
        /\ startResult.error = rejection.error
        /\ startResult.value = FALSE
        /\ Len(startCalls) = rejection.call
        /\ startCalls[rejection.call].method =
              (CASE rejection.call = 1 -> "POST"
                 [] rejection.call = 2 -> "GET"
                 [] OTHER -> "PUT")

\* the build update of a Start was rejected by the transport after a
\* retried status read
C22_Witness ==
    /\ rejection.call = 3
    /\ rejection.error \in TransportErrors
    /\ attempt > 0
    /\ startPc = "failed"
    /\ startResult.error.message = "lol"

\* --------------------------------------------------- lifecycle hooks claim
\* hooks that are configured and not empty
HasHooks(lifecycleHooks) == lifecycleHooks.defined /\ DOMAIN lifecycleHooks.obj # {}

\* C23: setLifecycleHooks changes nothing but the lifecycle of the container
\* of the given name, which it sets to the configured hooks; with empty or
\* absent hooks, or without a container of that name, the pod config is
\* unchanged. createPodConfig applies it with the name <prefix><buildId>.
C23_HooksOnBuildContainerOnly ==
    /\ hooked.called =>
        LET before == hooked.podConfig
            after == hooked.result
        IN  /\ DOMAIN after = DOMAIN before
            /\ \A k \in DOMAIN before \ {"spec.containers"} : after[k] = before[k]
            /\ "spec.containers" \in DOMAIN before =>
                  /\ Len(after["spec.containers"]) = Len(before["spec.containers"])
                  /\ \A i \in 1..Len(before["spec.containers"]) :
                        LET c == before["spec.containers"][i]
                            d == after["spec.containers"][i]
                        IN  IF HasHooks(hooked.lifecycleHooks) /\ c["name"] = hooked.containerName
                            THEN /\ DOMAIN d = DOMAIN c \cup {"lifecycle"}
                                 /\ d["lifecycle"] = hooked.lifecycleHooks.obj
                                 /\ \A k \in DOMAIN c \ {"lifecycle"} : d[k] = c[k]
                            ELSE d = c
    /\ Built =>
        LET containers == built.podConfig.spec["spec.containers"] IN
        /\ Len(containers) = 1
        /\ containers[1]["name"] = "beta_15"
        /\ IF /\ HasHooks(this.lifecycleHooks)
              /\ this.prefix = "beta_"
              /\ built.config.buildId = 15
           THEN /\ DOMAIN containers[1] = {"name", "lifecycle"}
                /\ containers[1]["lifecycle"] = this.lifecycleHooks.obj
           ELSE DOMAIN containers[1] = {"name"}

\* hooks were set on the second of two containers, replacing its lifecycle,
\* and a pod config was built with the configured hooks on its container
C23_Witness ==
    /\ hooked.called
    /\ "spec.containers" \in DOMAIN hooked.podConfig
    /\ Len(hooked.podConfig["spec.containers"]) = 2
    /\ hooked.podConfig["spec.containers"][2] =
          ("name" :> "beta_15") @@ ("lifecycle" :> ("preStop" :> "sleep 5"))
    /\ hooked.containerName = "beta_15"
    /\ DOMAIN hooked.lifecycleHooks.obj = {"postStart", "preStop"}
    /\ hooked.result["spec.containers"][2]["lifecycle"] = hooked.lifecycleHooks.obj
    /\ hooked.result["spec.containers"][1] = hooked.podConfig["spec.containers"][1]
    /\ Built
    /\ "lifecycle" \in DOMAIN built.podConfig.spec["spec.containers"][1]

\* ------------------------------------------------- pull-request job claims
\* job names of the form PR-<digits>, optionally followed by :<name>
IsPullRequestJob(jobName) == jobName \in {"PR-15", "PR-15:main"}

\* C24: every call with a pull-request job name yields a read-only cache
\* volume and the parent job id of the token (the given job id when the
\* token names none), every other call a writable volume and the given job
\* id, whatever the calls made before on the executor.
C24_Claimed ==
    Built =>
        IF IsPullRequestJob(built.config.jobName)
        THEN /\ BuiltValues.cache.volumeReadOnly
             /\ BuiltValues.job_id =
                   (IF built.config.token = "jwt.parent" THEN "777" ELSE built.config.jobId)
        ELSE /\ ~BuiltValues.cache.volumeReadOnly
             /\ BuiltValues.job_id = built.config.jobId

\* C29: building the pod config never fails, whatever the build descriptor:
\* with a pull-request job name and a token that cannot be decoded the given
\* job id is kept.
C29_Claimed == built.called => ~built.threw

\* ------------------------------------------------------- polling claims
\* the response reports the workload as scheduled
Scheduled(resp) ==
    /\ resp.conditions.present
    /\ \E i \in 1..Len(resp.conditions.list) :
          /\ resp.conditions.list[i].type = "PodScheduled"
          /\ resp.conditions.list[i].status = "True"

\* C25 as claimed: a status response of phase failed or unknown is never
\* retried, whatever its scheduling condition.
C25_Claimed == ~PhaseIsFatal(retriedPhase)

\* C25 amended: the retry decision reads the scheduling condition alone. A
\* status response of phase failed or unknown stops the polling at once when
\* it reports the workload as scheduled; otherwise it is retried like any
\* other response, and Start fails on it only with the retry budget spent.
\* In both cases Start fails on it without a build update.
C25_FatalPhaseWaitsForSchedule ==
    (statusResp.statusCode = 200 /\ PhaseIsFatal(statusResp.phase)) =>
        /\ startPc = "failed"
        /\ Len(startCalls) = 2
        /\ ~Scheduled(statusResp) => attempt = this.maxAttempts

\* a response of phase Failed is being retried a second time, the budget
\* not yet spent
C25_Witness ==
    /\ startPc = "awaiting_schedule"
    /\ retriedPhase = "Failed"
    /\ attempt = 2
    /\ attempt < this.maxAttempts

\* C26: every Start invocation terminates: the status read is retried no
\* more often than the retry limit allows, and an invocation that waits for
\* the workload to be scheduled eventually returns or fails, also when every
\* status read answers that the workload is not scheduled.
C26_StartTerminates ==
    /\ [](attempt <= this.maxAttempts)
    /\ (startPc = "awaiting_schedule") ~> (startPc \in {"done", "failed"})

\* a Start failed with the retry limit reached after as many retries as the
\* limit allows, none of its status reads having been accepted
C26_Witness ==
    /\ startPc = "failed"
    /\ attempt = this.maxAttempts
    /\ this.maxAttempts = 5
    /\ statusResp = NoResponse
    /\ rejection.call = 2
    /\ startResult.error.message = "Retry limit reached"

\* C27: the hook of the status read hands the response back exactly when
\* its conditions hold a PodScheduled entry of status 'True'; in every other
\* case the only failure it raises is the error 'Retry limit reached'.
C27_Claimed ==
    (rejection.call = 2 /\ rejection.error \notin TransportErrors) =>
        rejection.error = [name |-> "Error", message |-> "Retry limit reached"]

\* ------------------------------------------------ Start next to Stop claims
\* the workload carries the label that Stop and Verify of build b select
LabelledFor(p, b) == "sdbuild=" \o p.labels["sdbuild"] = ExpectedSelector(this.prefix, b)

C28_Step ==
    /\ stopVars' # stopVars => startVars' = startVars
    /\ startVars' # startVars => stopVars' = stopVars
    /\ (stopPc = "deleting" /\ stopPc' = "done") =>
          pods' = { p \in pods : ~LabelledFor(p, stopConfig.buildId) }
    /\ (startPc = "submitting" /\ startPc' = "awaiting_schedule") =>
          \E p \in pods' : p.name = createResp'.name /\ p.buildId = startConfig.buildId

\* C28: Start and Stop of one build are not serialized. No step of Stop
\* reads or writes the state of a Start in flight, and none of Start that of
\* a Stop; a delete answered 200 removes the workloads labelled for the
\* build that exist at that moment, and a create answered 201 takes effect
\* wherever Stop stands. A workload labelled sdbuild=<prefix><b> can
\* therefore exist when Stop(b) has completed with 200.
C28_NotSerialized == [][C28_Step]_vars

\* Stop(b) has completed on a 200 answer, and a workload labelled for b,
\* created by a Start(b) still in flight, exists
C28_Witness ==
    /\ stopPc = "done"
    /\ stopResp.statusCode = 200
    /\ stopResult = Resolved(Null)
    /\ startPc \in {"awaiting_schedule", "reporting_interim"}
    /\ startConfig.buildId = stopConfig.buildId
    /\ createResp.statusCode = 201
    /\ \E p \in pods :
          /\ p.name = createResp.name
          /\ p.buildId = stopConfig.buildId
          /\ LabelledFor(p, stopConfig.buildId)
          /\ Selects(stopCalls[1].labelSelector, p.labels)

C30_Step ==
    /\ \A i \in 1..Len(startCalls') : startCalls'[i].method \in {"POST", "GET", "PUT"}
    /\ startVars' # startVars => pods \subseteq pods'
    /\ ~(pods \subseteq pods') =>
          /\ stopPc = "deleting"
          /\ stopPc' = "done"
          /\ stopResp'.statusCode = 200
          /\ \A p \in pods \ pods' : p.buildId = stopConfig.buildId

\* C30: Start never issues a delete call and none of its steps removes a
\* workload, so that the workload of a Start that fails after its create
\* stays in place; a workload is removed only by the 200 answer to the
\* delete of a Stop for its build id.
C30_StartNeverDeletes == [][C30_Step]_vars

\* a Start failed on a status read of phase Failed and the workload it
\* created is still there
C30_Witness ==
    /\ startPc = "failed"
    /\ createResp.statusCode = 201
    /\ statusResp.statusCode = 200
    /\ statusResp.phase = "Failed"
    /\ startResult.error.message = "Failed to create pod. Pod status is: failed"
    /\ \E p \in pods : p.name = createResp.name /\ p.buildId = startConfig.buildId

====
